---------------------------- MODULE Spec2Model ----------------------------
(***************************************************************************)
(* A model of the dialogue-engine tool chain: the lexer (lexer.ts), the    *)
(* recursive-descent parser (parser.ts), the IR lowering and the bytecode  *)
(* encoder (compiler.ts), and the virtual machine (vm.ts) driven by the    *)
(* loop of run.ts.                                                         *)
(*                                                                         *)
(* A JavaScript string is modelled as a sequence of characters, each       *)
(* character being a one-character TLA+ string (the backtick, which a      *)
(* TLA+ string cannot hold, is the atom BACKTICK).  The empty string is    *)
(* the empty sequence.                                                     *)
(***************************************************************************)
EXTENDS Integers, Sequences, FiniteSets, TLC

VARIABLES
    stage,              \* where the tool chain stands
    lexer,              \* the object returned by lex(): lexer state, generator, peaked, current, stackCurrent
    documentContents,   \* parse(): the statements parsed so far
    failure,            \* the error thrown, if any
    snapshots,          \* observer: what current(), peek() and the later next() calls showed at each pushCurrent()
    returned,           \* observer: the call made last on the lexer object and what it returned
    IR,                 \* compile.ts: the IR that compileIR returned
    compiler,           \* compile.ts: the CompilerState after compileIR
    bc,                 \* the bytes of script.bc
    vm,                 \* run.ts: the VMState
    driver,             \* run.ts: done, whether run() is executing, and the calls of run() made
    shown,              \* observer: the dialogue lines printed, each with its speaker
    log                 \* observer: the instructions executed, in order

vars == <<stage, lexer, documentContents, failure, snapshots, returned,
          IR, compiler, bc, vm, driver, shown, log>>

\* what the lexer and the parser leave alone
backend == <<IR, compiler, bc, vm, driver, shown, log>>

----------------------------------------------------------------------------
(* Bounds of the model. *)

\* the longest input text of the lexer specification
MaxLexLen == 3
\* the observer counts the next() calls made since pushCurrent() up to this many
MaxNexts == 3
\* the longest input text of the parser specification
MaxParseLen == 4
\* the most lines of a script of the tool-chain specification
MaxStmts == 2

----------------------------------------------------------------------------
(* Characters (lexer.ts). *)

BACKTICK == "BACKTICK"

\* String.prototype.charAt past the end
NoChar == ""

WHITESPACE_CHARS == {" ", "\t", "\r"}

STRING_ENCLOSURES == {"'", "\"", BACKTICK, "{", "}"}

SPECIAL_CHARACTERS == {"*", "_", "@", ":", "\\", "=", "<", "?"}

TEXT_TERMINATORS == WHITESPACE_CHARS \cup STRING_ENCLOSURES \cup SPECIAL_CHARACTERS \cup {"\n"}

\* /[a-zA-Z0-9]/
alphaNumericRegex ==
    {"a","b","c","d","e","f","g","h","i","j","k","l","m","n","o","p","q","r","s","t","u","v","w","x","y","z",
     "A","B","C","D","E","F","G","H","I","J","K","L","M","N","O","P","Q","R","S","T","U","V","W","X","Y","Z",
     "0","1","2","3","4","5","6","7","8","9"}

----------------------------------------------------------------------------
(* The lexer state: [input, cursorStack]; a cursor is [line, column, index]. *)

createLexer(input) ==
    [input |-> input, cursorStack |-> << [line |-> 1, column |-> 1, index |-> 0] >>]

currentCursor(lx) == lx.cursorStack[Len(lx.cursorStack)]

charAt(input, index) == IF index >= 0 /\ index < Len(input) THEN input[index + 1] ELSE NoChar

currentChar(lx) == charAt(lx.input, currentCursor(lx).index)

advanceCursor(lx) ==
    LET cursor == currentCursor(lx)
        isNewline == currentChar(lx) = "\n"
        moved == IF isNewline
                 THEN [line |-> cursor.line + 1, column |-> 0, index |-> cursor.index + 1]
                 ELSE [line |-> cursor.line, column |-> cursor.column + 1, index |-> cursor.index + 1]
    IN  [lx EXCEPT !.cursorStack[Len(lx.cursorStack)] = moved]

isEOF(lx) == currentCursor(lx).index >= Len(lx.input)

cloneAndPushCursor(lx) == [lx EXCEPT !.cursorStack = Append(@, currentCursor(lx))]

(* A token is [type, text, range]: text holds a Word's or Whitespace's text, *)
(* an EnclosedTextIndicator's enclosure, a SpecialCharacter's character, a   *)
(* Variable's name, and is empty for NewLine and ScriptEnd.                  *)
Token(type, text, start, end) == [type |-> type, text |-> text, range |-> <<start, end>>]

\* the value of an IteratorResult whose done is true
Undefined == [type |-> "undefined", text |-> <<>>, range |-> <<>>]

(* The loop shared by readWhitespace and readVariable: while not at the end  *)
(* and the current character is in chars, take it and advance.               *)
RECURSIVE readRun(_, _, _)
readRun(lx, chars, text) ==
    IF ~isEOF(lx) /\ currentChar(lx) \in chars
    THEN readRun(advanceCursor(lx), chars, Append(text, currentChar(lx)))
    ELSE [lx |-> lx, text |-> text]

\* readWord's loop: every character that is no text terminator, whatever it is
RECURSIVE readWordRun(_, _)
readWordRun(lx, text) ==
    IF ~isEOF(lx) /\ currentChar(lx) \notin TEXT_TERMINATORS
    THEN readWordRun(advanceCursor(lx), Append(text, currentChar(lx)))
    ELSE [lx |-> lx, text |-> text]

(* The end of every reader, given the lexer state and the text read: end is  *)
(* the current cursor, start is shifted off the FRONT of the cursor stack.   *)
finishToken(run, type) ==
    [lx    |-> [run.lx EXCEPT !.cursorStack = Tail(@)],
     token |-> Token(type, run.text, Head(run.lx.cursorStack), currentCursor(run.lx))]

readWhitespace(lx) ==
    finishToken(readRun(cloneAndPushCursor(lx), WHITESPACE_CHARS, <<>>), "Whitespace")

readNewline(lx) ==
    finishToken([lx |-> advanceCursor(cloneAndPushCursor(lx)), text |-> <<>>], "NewLine")

readEnclosedTextIndicator(lx) ==
    finishToken([lx |-> advanceCursor(cloneAndPushCursor(lx)), text |-> <<currentChar(lx)>>],
                "EnclosedTextIndicator")

readSpecialCharacter(lx) ==
    finishToken([lx |-> advanceCursor(cloneAndPushCursor(lx)), text |-> <<currentChar(lx)>>],
                "SpecialCharacter")

readWord(lx) ==
    finishToken(readWordRun(cloneAndPushCursor(lx), <<>>), "Word")

readVariable(lx) ==
    finishToken(readRun(advanceCursor(cloneAndPushCursor(lx)), alphaNumericRegex, <<>>), "Variable")

getNextToken(lx) ==
    IF isEOF(lx)
    THEN [lx |-> lx, token |-> Token("ScriptEnd", <<>>, currentCursor(lx), currentCursor(lx))]
    ELSE CASE currentChar(lx) \in WHITESPACE_CHARS -> readWhitespace(lx)
           [] currentChar(lx) = "\n" -> readNewline(lx)
           [] currentChar(lx) \in STRING_ENCLOSURES -> readEnclosedTextIndicator(lx)
           [] currentChar(lx) \in SPECIAL_CHARACTERS -> readSpecialCharacter(lx)
           [] currentChar(lx) = "$" -> readVariable(lx)
           [] OTHER -> readWord(lx)

\* the generator's yield of the token t that getNextToken returned
yield(t) ==
    [lx |-> t.lx, genDone |-> t.token.type = "ScriptEnd",
     result |-> [value |-> t.token, done |-> FALSE]]

(* tokenGenerator: gen.next() yields the next token; the call after the one  *)
(* that yielded ScriptEnd leaves the loop, and from then on the generator    *)
(* is done.  genDone says that the next call finds the generator finished.   *)
tokenGenerator(lx, genDone) ==
    IF genDone
    THEN [lx |-> lx, genDone |-> TRUE, result |-> [value |-> Undefined, done |-> TRUE]]
    ELSE yield(getNextToken(lx))

----------------------------------------------------------------------------
(* The object returned by lex(input). *)

\* the object whose generator has just run as g says
lexObject(g, current, stackCurrent) ==
    [lexer |-> g.lx, genDone |-> g.genDone,
     peaked |-> g.result, current |-> current, stackCurrent |-> stackCurrent]

\* let peaked = gen.next(); let current = peaked
lexFirst(g) == lexObject(g, g.result, <<>>)

lex(input) == lexFirst(tokenGenerator(createLexer(input), FALSE))

\* lex.next(): the object after the call; the call returns its current
next(l) == lexObject(tokenGenerator(l.lexer, l.genDone), l.peaked, l.stackCurrent)

peek(l) == l.peaked

current(l) == l.current

lexIsEOF(l) == isEOF(l.lexer)

pushCurrent(l) ==
    [l EXCEPT !.lexer = cloneAndPushCursor(l.lexer),
              !.stackCurrent = Append(Append(@, l.peaked), l.current)]

\* Array.prototype.pop: the array without its last element
popped(s) == SubSeq(s, 1, Len(s) - 1)

popCurrent(l) ==
    [l EXCEPT !.lexer.cursorStack = popped(@),
              !.current = l.stackCurrent[Len(l.stackCurrent)],
              !.peaked = l.stackCurrent[Len(l.stackCurrent) - 1],
              !.stackCurrent = popped(popped(@))]

shiftLast(l) ==
    [l EXCEPT !.lexer.cursorStack = Tail(@),
              !.stackCurrent = popped(popped(@))]

----------------------------------------------------------------------------
(* The parser (parser.ts).  A parsing function takes the lexer object and    *)
(* gives [lex, ok, node, error]: the lexer object after it, and either the   *)
(* node (or token) it returns or the error it throws.                        *)

\* JavaScript's undefined, where a character or an enclosure is expected
undefined == "undefined"

\* JavaScript's undefined, where a string is expected
undefinedString == <<"undefined">>

Return(l, node) == [lex |-> l, ok |-> TRUE, node |-> node, error |-> <<>>]

Throw(l, error) == [lex |-> l, ok |-> FALSE, node |-> <<>>, error |-> error]

ParseError(message, cursorStack) ==
    [name |-> "ParseError", message |-> message, cursorStack |-> cursorStack]

UnexpectedToken(token) == ParseError(<<"Unexpected token", token.type>>, token.range)

UnexpectedEnd == ParseError(<<"Unexpected end of script">>, <<>>)

StringNode(contents) == [type |-> "String", contents |-> contents]

\* what skipWhitespace does with the object n that lex.next() left
RECURSIVE skipWhitespace(_, _)
skipped(n, includeNewline) ==
    IF n.current.done THEN Throw(n, UnexpectedEnd)
    ELSE IF n.current.value.type # "Whitespace"
            /\ (~includeNewline \/ n.current.value.type # "NewLine")
    THEN Return(n, n.current.value)
    ELSE skipWhitespace(n, includeNewline)

skipWhitespace(l, includeNewline) == skipped(next(l), includeNewline)

(* parseString's loop: currentToken is the iterator result whose value the   *)
(* loop holds (done when that value is undefined).                           *)
RECURSIVE parseStringLoop(_, _, _)
parseStringLoop(l, currentToken, contents) ==
    IF ~currentToken.done /\ currentToken.value.type \in {"Word", "Whitespace"}
    THEN parseStringLoop(next(l), l.peaked, contents \o currentToken.value.text)
    ELSE Return(l, StringNode(contents))

parseString(l, firstToken) ==
    IF firstToken.type # "Word" THEN Throw(l, UnexpectedToken(firstToken))
    ELSE parseStringLoop(l, [value |-> firstToken, done |-> FALSE], <<>>)

parseEscapedCharacter(l, firstToken) ==
    IF firstToken.type # "SpecialCharacter" THEN Throw(l, UnexpectedToken(firstToken))
    ELSE IF peek(l).done THEN Throw(l, UnexpectedEnd)
    ELSE IF peek(l).value.type \notin {"SpecialCharacter", "NewLine", "EnclosedTextIndicator"}
    THEN Return(next(l), StringNode(firstToken.text))
    ELSE Return(next(next(l)),
                StringNode(IF peek(l).value.type = "NewLine" THEN <<"\n">> ELSE peek(l).value.text))

parseExpression(l, firstToken) ==
    IF firstToken.type # "Variable" THEN Throw(l, UnexpectedToken(firstToken))
    ELSE Return(next(l), [type |-> "Expression", key |-> firstToken.text])

\* a pushChild that appends the child without looking at the last one
pushChildUnmerged(children, child) == Append(children, child)

pushChild(children, child) ==
    IF child.type = "String" /\ children # <<>> /\ children[Len(children)].type = "String"
    THEN [children EXCEPT ![Len(children)].contents = @ \o child.contents]
    ELSE Append(children, child)

\* the node built from the children r returns, or the error r throws
Wrap(r, type, enclosed) ==
    IF ~r.ok THEN r
    ELSE IF type = "Script" THEN Return(r.lex, [type |-> "Script", contents |-> r.node])
    ELSE Return(r.lex, [type |-> "Text", contents |-> r.node, enclosed |-> enclosed])

RECURSIVE parseEnclosedTextNode(_, _, _)
RECURSIVE parseTextNodeChildrenLoop(_, _, _, _, _, _)

(* One turn of the loop of parseTextNodeChildren has produced the child r    *)
(* returns (or r throws): pushChild, then currentToken = lex.current().value *)
(* and the next turn.                                                        *)
pushAndContinue(r, enclosedEnd, ignoreEnclosureStart, ignoreEnclosureEndCountCurrent, children) ==
    IF ~r.ok THEN r
    ELSE parseTextNodeChildrenLoop(r.lex, current(r.lex), enclosedEnd, ignoreEnclosureStart,
                                   ignoreEnclosureEndCountCurrent, pushChild(children, r.node))

(* The while loop of parseTextNodeChildren: currentToken is the iterator     *)
(* result whose value the loop holds (done when that value is undefined).    *)
(* A literal child is pushed and currentToken = lex.next().value: the token  *)
(* lex.current() then holds.                                                 *)
parseTextNodeChildrenLoop(l, currentToken, enclosedEnd, ignoreEnclosureStart, ignoreEnclosureEndCountCurrent, children) ==
    IF currentToken.done
       \/ ~(enclosedEnd # undefined \/ currentToken.value.type # "NewLine")
       \/ currentToken.value.type = "ScriptEnd"
    THEN Return(l, children)
    ELSE CASE currentToken.value.type = "Word" ->
                pushAndContinue(parseString(l, currentToken.value), enclosedEnd, ignoreEnclosureStart,
                                ignoreEnclosureEndCountCurrent, children)
           [] currentToken.value.type = "SpecialCharacter" ->
                IF currentToken.value.text = <<"\\">>
                THEN pushAndContinue(parseEscapedCharacter(l, currentToken.value), enclosedEnd,
                                     ignoreEnclosureStart, ignoreEnclosureEndCountCurrent, children)
                ELSE pushAndContinue(Return(next(l), StringNode(currentToken.value.text)), enclosedEnd,
                                     ignoreEnclosureStart, ignoreEnclosureEndCountCurrent, children)
           [] currentToken.value.type = "EnclosedTextIndicator" ->
                IF currentToken.value.text[1] = enclosedEnd
                THEN IF ignoreEnclosureEndCountCurrent > 0
                     THEN pushAndContinue(Return(next(l), StringNode(currentToken.value.text)), enclosedEnd,
                                          ignoreEnclosureStart, ignoreEnclosureEndCountCurrent - 1, children)
                     ELSE Return(next(l), children)
                ELSE IF currentToken.value.text[1] = ignoreEnclosureStart
                THEN pushAndContinue(Return(next(l), StringNode(currentToken.value.text)), enclosedEnd,
                                     ignoreEnclosureStart, ignoreEnclosureEndCountCurrent + 1, children)
                ELSE pushAndContinue(parseEnclosedTextNode(l, currentToken.value, TRUE), enclosedEnd,
                                     ignoreEnclosureStart, ignoreEnclosureEndCountCurrent, children)
           [] currentToken.value.type = "Whitespace" ->
                pushAndContinue(Return(next(l), StringNode(currentToken.value.text)), enclosedEnd,
                                ignoreEnclosureStart, ignoreEnclosureEndCountCurrent, children)
           [] currentToken.value.type = "Variable" ->
                pushAndContinue(parseExpression(l, currentToken.value), enclosedEnd, ignoreEnclosureStart,
                                ignoreEnclosureEndCountCurrent, children)
           [] currentToken.value.type = "NewLine" ->
                pushAndContinue(Return(next(l), StringNode(<<"\n">>)), enclosedEnd,
                                ignoreEnclosureStart, ignoreEnclosureEndCountCurrent, children)

\* firstToken is an iterator result: lex.next().value may be undefined
parseTextNodeChildren(l, firstToken, enclosedEnd, ignoreEnclosureStart, ignoreEnclosureEndCount) ==
    IF firstToken.done THEN Throw(l, UnexpectedEnd)
    ELSE parseTextNodeChildrenLoop(l, firstToken, enclosedEnd, ignoreEnclosureStart,
                                   ignoreEnclosureEndCount, <<>>)

\* the same, with a script read as an enclosure that does not count the
\* braces opened inside it
enclosedAfterNextUncounted(n, enclosure, disallowTextString) ==
    IF disallowTextString /\ enclosure \in {"\"", "'"}
    THEN Return(n, StringNode(<<enclosure>>))
    ELSE IF enclosure = "{"
    THEN Wrap(parseTextNodeChildren(n, current(n), "}", undefined, 0), "Script", undefined)
    ELSE Wrap(parseTextNodeChildren(n, current(n), enclosure, undefined, 0), "Text", enclosure)

\* the code of parseEnclosedTextNode after lex.next(), which left the object n
enclosedAfterNext(n, enclosure, disallowTextString) ==
    IF disallowTextString /\ enclosure \in {"\"", "'"}
    THEN Return(n, StringNode(<<enclosure>>))
    ELSE IF enclosure = "{"
    THEN Wrap(parseTextNodeChildren(n, current(n), "}", "{", 0), "Script", undefined)
    ELSE Wrap(parseTextNodeChildren(n, current(n), enclosure, undefined, 0), "Text", enclosure)

parseEnclosedTextNode(l, firstToken, disallowTextString) ==
    IF firstToken.type # "EnclosedTextIndicator" THEN Throw(l, UnexpectedToken(firstToken))
    ELSE enclosedAfterNext(next(l), firstToken.text[1], disallowTextString)

TextNode(contents) == [type |-> "Text", contents |-> contents, enclosed |-> undefined]

\* Text{contents: [node]} around the enclosed node r returns
WrapEnclosed(r) == IF ~r.ok THEN r ELSE Return(r.lex, TextNode(<<r.node>>))

parseTextNode(l, firstToken) ==
    CASE firstToken.type \in {"Word", "SpecialCharacter", "Variable"} ->
            Wrap(parseTextNodeChildren(l, [value |-> firstToken, done |-> FALSE], undefined, undefined, 0),
                 "Text", undefined)
      [] firstToken.type = "NewLine" -> Return(l, TextNode(<<>>))
      [] firstToken.type = "EnclosedTextIndicator" ->
            WrapEnclosed(parseEnclosedTextNode(l, firstToken, FALSE))
      [] firstToken.type = "ScriptEnd" -> Return(l, TextNode(<<>>))
      [] OTHER -> Throw(l, UnexpectedToken(firstToken))

\* a speaker rule that takes the name of a variable as it takes a word
speakerOfWordOrVariable(l, firstToken) ==
    IF ~peek(l).done /\ peek(l).value.type = "SpecialCharacter" /\ peek(l).value.text = <<":">>
    THEN firstToken.text ELSE undefinedString

\* the speaker parseDialogue finds: the word before ":", or undefined
speakerOf(l, firstToken) ==
    IF ~peek(l).done /\ firstToken.type # "Variable"
       /\ peek(l).value.type = "SpecialCharacter" /\ peek(l).value.text = <<":">>
    THEN firstToken.text ELSE undefinedString

\* JavaScript's truthiness of a string or undefined
truthy(string) == string # undefinedString /\ string # <<>>

\* the Dialogue around the text r returns
WrapDialogue(r, speaker) ==
    IF ~r.ok THEN r
    ELSE Return(r.lex, [type |-> "Dialogue", contents |-> r.node, speaker |-> speaker])

\* parseTextNode(lex, token) of the token t returns
textOfToken(t) == IF ~t.ok THEN t ELSE parseTextNode(t.lex, t.node)

parseDialogue(l, firstToken) ==
    IF firstToken.type # "Word" /\ firstToken.type # "Variable"
    THEN Throw(l, UnexpectedToken(firstToken))
    ELSE WrapDialogue(textOfToken(IF truthy(speakerOf(l, firstToken))
                                  THEN skipWhitespace(next(l), FALSE)
                                  ELSE Return(l, firstToken)),
                      speakerOf(l, firstToken))

RECURSIVE parseOptions(_, _)

\* the end of a turn of the options loop: nextLine = skipWhitespace(lex)
optionsNextLine(nextLine, options) ==
    IF ~nextLine.ok THEN nextLine
    ELSE IF nextLine.node.type = "SpecialCharacter" /\ nextLine.node.text = <<"?">>
    THEN parseOptions(nextLine.lex, options)
    ELSE Return(nextLine.lex, options)

\* prompt = parseEnclosedTextNode(lex, next) has returned (or thrown)
optionsPrompt(prompt, optionName, range, options) ==
    IF ~prompt.ok THEN prompt
    ELSE IF prompt.node.type # "Text"
    THEN Throw(prompt.lex, ParseError(<<"Unexpected node", prompt.node.type>>, range))
    ELSE optionsNextLine(skipWhitespace(prompt.lex, FALSE),
            Append(options, [type |-> "AssignmentChoice",
                             value |-> [type |-> "ChoiceValue", key |-> optionName,
                                        prompt |-> prompt.node]]))

\* next = skipWhitespace(lex, true) has returned (or thrown)
optionsEnclosure(n, optionName, options) ==
    IF ~n.ok THEN n
    ELSE IF n.node.type # "EnclosedTextIndicator" \/ n.node.text[1] \notin {"'", "\""}
    THEN Throw(n.lex, UnexpectedToken(n.node))
    ELSE optionsPrompt(parseEnclosedTextNode(n.lex, n.node, FALSE), optionName, n.node.range, options)

\* current = skipWhitespace(lex, true) has returned (or thrown)
optionsName(c, options) ==
    IF ~c.ok THEN c
    ELSE IF c.node.type # "Word" THEN Throw(c.lex, UnexpectedToken(c.node))
    ELSE IF c.node.text = <<"i", "f">>
    THEN Throw(c.lex, [name |-> "Error", message |-> <<"Unimplemented">>, cursorStack |-> <<>>])
    ELSE optionsEnclosure(skipWhitespace(next(c.lex), TRUE), c.node.text, options)

\* the loop over the options of a select assignment: while (!lex.isEOF())
parseOptions(l, options) ==
    IF lexIsEOF(l) THEN Return(l, options)
    ELSE optionsName(skipWhitespace(l, TRUE), options)

WrapSelect(options, key) ==
    IF ~options.ok THEN options
    ELSE Return(options.lex, [type |-> "AssignmentSelect", key |-> key, options |-> options.node])

WrapAssignment(value, key, isPrompt) ==
    IF ~value.ok THEN value
    ELSE Return(value.lex, [type |-> "Assignment", key |-> key, value |-> value.node,
                            isPrompt |-> isPrompt])

\* nextToken = skipWhitespace(lex, true), after lex.pushCurrent(), has returned (or thrown)
possibleAssignment(nextToken, firstToken) ==
    IF ~nextToken.ok THEN nextToken
    ELSE IF nextToken.node.type # "SpecialCharacter" \/ nextToken.node.text[1] \notin {"?", "<", "="}
    THEN parseDialogue(popCurrent(nextToken.lex), firstToken)
    ELSE IF nextToken.node.text = <<"?">>
    THEN WrapSelect(parseOptions(next(shiftLast(nextToken.lex)), <<>>), firstToken.text)
    ELSE WrapAssignment(textOfToken(skipWhitespace(next(shiftLast(nextToken.lex)), FALSE)),
                        firstToken.text, nextToken.node.text = <<"<">>)

parsePossibleAssignment(l, firstToken) ==
    IF firstToken.type # "Variable" THEN Throw(l, UnexpectedToken(firstToken))
    ELSE possibleAssignment(skipWhitespace(pushCurrent(l), TRUE), firstToken)

----------------------------------------------------------------------------
(* A JavaScript Map is modelled as the sequence of its entries <<key,        *)
(* value>>, in insertion order, which is the order its iterators follow.     *)

MapHas(m, k) == \E i \in 1..Len(m) : m[i][1] = k

\* Map.prototype.get of a key the map has
MapGet(m, k) == m[CHOOSE i \in 1..Len(m) : m[i][1] = k][2]

\* Map.prototype.set: the entry of an existing key keeps its place
MapSet(m, k, v) ==
    IF MapHas(m, k)
    THEN [i \in 1..Len(m) |-> IF m[i][1] = k THEN <<k, v>> ELSE m[i]]
    ELSE Append(m, <<k, v>>)

----------------------------------------------------------------------------
(* compiler.ts: the lowering of a Document to IR.  Every function returns    *)
(* the instructions it produced and the compiler state it left.              *)

createCompiler ==
    [characterIdNext |-> 0, characters |-> <<>>,
     stringIdNext |-> 0, strings |-> <<>>,
     variableIdNext |-> 0, variables |-> <<>>]

getCharacterId(state, name) ==
    IF MapHas(state.characters, name)
    THEN [state |-> state, id |-> MapGet(state.characters, name)]
    ELSE [state |-> [state EXCEPT !.characterIdNext = @ + 1,
                                  !.characters = Append(@, <<name, state.characterIdNext>>)],
          id |-> state.characterIdNext]

getStringId(state, text) ==
    IF MapHas(state.strings, text)
    THEN [state |-> state, id |-> MapGet(state.strings, text)]
    ELSE [state |-> [state EXCEPT !.stringIdNext = @ + 1,
                                  !.strings = Append(@, <<text, state.stringIdNext>>)],
          id |-> state.stringIdNext]

getVariableId(state, name) ==
    IF MapHas(state.variables, name)
    THEN [state |-> state, id |-> MapGet(state.variables, name)]
    ELSE [state |-> [state EXCEPT !.variableIdNext = @ + 1,
                                  !.variables = Append(@, <<name, state.variableIdNext>>)],
          id |-> state.variableIdNext]

\* ir.push(op) on the result c of a compile function
pushOp(c, op) == [c EXCEPT !.ir = Append(@, op)]

\* the one instruction whose operand is the id that g found or made
operandIR(g, type, operand) ==
    [ir |-> <<[type |-> type] @@ (operand :> g.id)>>, state |-> g.state]

\* ir.push(...r.ir) on the instructions ir produced before r was compiled
pushAll(ir, r) == [r EXCEPT !.ir = ir \o @]

RECURSIVE compileTextNodeChild(_, _)
RECURSIVE compileChildren(_, _, _)

\* a loop body that joins no child to the ones before it
pushChildIRUnjoined(c, r, isFirstNode) == [ir |-> c.ir \o r.ir, state |-> r.state]

\* the body of the loop of compileTextNode, r being the compiled child
pushChildIR(c, r, isFirstNode) ==
    [ir |-> c.ir \o r.ir \o (IF isFirstNode THEN <<>> ELSE <<[type |-> "Concatenate"]>>),
     state |-> r.state]

\* the loop of compileTextNode from the child number i on
compileChildren(contents, i, c) ==
    IF i > Len(contents) THEN c
    ELSE compileChildren(contents, i + 1,
                         pushChildIR(c, compileTextNodeChild(contents[i], c.state), i = 1))

compileTextNode(node, state) ==
    compileChildren(node.contents, 1, [ir |-> <<>>, state |-> state])

compileScript(node, state) ==
    pushOp(compileTextNode(node, state), [type |-> "EvaluateScript"])

compileTextNodeChild(child, state) ==
    CASE child.type = "Script" -> compileScript(child, state)
      [] child.type = "Expression" ->
            operandIR(getVariableId(state, child.key), "ReadVariable", "variable")
      [] child.type = "String" ->
            operandIR(getStringId(state, child.contents), "ReadStr", "string")
      [] child.type = "Text" -> compileTextNode(child, state)

\* compileDialogue after the character id has been looked up: head is the
\* SetCharacter instruction, if any
dialogueIR(head, state, dialogue) ==
    pushOp(pushAll(head, compileTextNode(dialogue.contents, state)),
           [type |-> "ShowDialogue", enclosed |-> dialogue.contents.enclosed])

\* compileDialogue of a dialogue that has a speaker, whose id g holds
spokenDialogueIR(g, dialogue) ==
    dialogueIR(<<[type |-> "SetCharacter", character |-> g.id]>>, g.state, dialogue)

compileDialogue(dialogue, state) ==
    IF truthy(dialogue.speaker)
    THEN spokenDialogueIR(getCharacterId(state, dialogue.speaker), dialogue)
    ELSE dialogueIR(<<>>, state, dialogue)

\* ir.push({type: "SetVariable", variable: getVariableId(state, key)}) on c
pushSetVariable(c, key) ==
    pushAll(c.ir, operandIR(getVariableId(c.state, key), "SetVariable", "variable"))

compileAssignment(assignment, state) ==
    pushSetVariable(IF assignment.isPrompt
                    THEN pushOp(compileTextNode(assignment.value, state), [type |-> "Prompt"])
                    ELSE compileTextNode(assignment.value, state),
                    assignment.key)

\* compileChoiceValue: after the prompt p, the ReadStr of the key
compileChoiceValue(p, value) ==
    pushAll(p.ir, operandIR(getStringId(p.state, value.key), "ReadStr", "string"))

\* the loop of compileAssignmentSelect over the options, from number i on
RECURSIVE compileOptions(_, _, _)
compileOptions(options, i, c) ==
    IF i > Len(options) THEN c
    ELSE compileOptions(options, i + 1,
            pushAll(c.ir, compileChoiceValue(compileTextNode(options[i].value.prompt, c.state),
                                             options[i].value)))

compileAssignmentSelect(assignment, state) ==
    pushSetVariable(
        pushOp(pushOp(compileOptions(assignment.options, 1,
                                     [ir |-> <<[type |-> "MoveRegReg", from |-> 1, to |-> 3]>>,
                                      state |-> state]),
                      [type |-> "SubRegReg", into |-> 3, registerLeft |-> 1, registerRight |-> 3]),
               [type |-> "PickOption", register |-> 3]),
        assignment.key)

\* the statement of a Document, compiled after the instructions of c
compileStatement(c, node) ==
    CASE node.type = "Dialogue" -> pushAll(c.ir, compileDialogue(node, c.state))
      [] node.type = "Assignment" -> pushAll(c.ir, compileAssignment(node, c.state))
      [] node.type = "AssignmentSelect" -> pushAll(c.ir, compileAssignmentSelect(node, c.state))
      [] OTHER -> c

\* the loop of compileIR over the statements, from number i on
RECURSIVE compileStatements(_, _, _)
compileStatements(contents, i, c) ==
    IF i > Len(contents) THEN c
    ELSE compileStatements(contents, i + 1, compileStatement(c, contents[i]))

compileIR(contents, state) ==
    pushOp(compileStatements(contents, 1, [ir |-> <<[type |-> "Label", target |-> 0]>>,
                                           state |-> state]),
           [type |-> "EndOfScript"])

----------------------------------------------------------------------------
(* bytecode.ts and the encoder of compiler.ts.  An ArrayBuffer is modelled   *)
(* as the sequence of its bytes: the byte at offset o is element o + 1.      *)

OPCODE_MAP ==
    [ReadStr |-> 0, SetCharacter |-> 1, ShowDialogue |-> 2, EvaluateScript |-> 3,
     Concatenate |-> 4, ReadVariable |-> 5, SetVariableName |-> 6, Jump |-> 7,
     EndOfScript |-> 8, SetVariable |-> 9, Prompt |-> 10, MoveRegReg |-> 11,
     SubRegReg |-> 12, PickOption |-> 13]

\* OPCODE_TO_IROp[opcode]: the name of the opcode, or undefined
OPCODE_TO_IROp(opcode) ==
    IF \E op \in DOMAIN OPCODE_MAP : OPCODE_MAP[op] = opcode
    THEN CHOOSE op \in DOMAIN OPCODE_MAP : OPCODE_MAP[op] = opcode
    ELSE undefined

(* The characters of the model and their UTF-8 encoding, one byte each (the  *)
(* control characters a reader of the image's first bytes can meet are the   *)
(* atoms ACK and BEL, and NUL is the character U+0000, which a script file   *)
(* may hold like any other).                                                 *)
ACK == "ACK"

BEL == "BEL"

NUL == "NUL"

CharCodes ==
    << <<NUL, 0>>, <<ACK, 6>>, <<BEL, 7>>, <<"\t", 9>>, <<"\n", 10>>, <<"\r", 13>>, <<" ", 32>>,
       <<"!", 33>>, <<"\"", 34>>, <<"$", 36>>, <<"'", 39>>, <<"1", 49>>, <<":", 58>>,
       <<"<", 60>>, <<"=", 61>>, <<"?", 63>>, <<"A", 65>>, <<"B", 66>>, <<"\\", 92>>,
       <<BACKTICK, 96>>, <<"a", 97>>, <<"b", 98>>, <<"c", 99>>, <<"k", 107>>,
       <<"o", 111>>, <<"x", 120>>, <<"y", 121>>, <<"{", 123>>, <<"}", 125>> >>

\* new TextEncoder().encode(str)
stringData(str) == [i \in 1..Len(str) |-> MapGet(CharCodes, str[i])]

\* new TextDecoder().decode(bytes)
decode(bytes) ==
    [i \in 1..Len(bytes) |->
        CharCodes[CHOOSE j \in 1..Len(CharCodes) : CharCodes[j][2] = bytes[i]][1]]

\* DataView.setUint32(_, value, true): the four bytes of value, lowest first
uint32(value) ==
    <<value % 256, (value \div 256) % 256, (value \div 65536) % 256,
      (value \div 16777216) % 256>>

\* the bytes of buf after view.setUint32(offset, value, true)
setUint32(buf, offset, value) ==
    [j \in 1..Len(buf) |->
        IF j > offset /\ j <= offset + 4 THEN uint32(value)[j - offset] ELSE buf[j]]

\* the concatenation of the four-byte encodings of the operands
RECURSIVE operands32(_)
operands32(operands) ==
    IF operands = <<>> THEN <<>> ELSE uint32(Head(operands)) \o operands32(Tail(operands))

operandOp(op, operands) == uint32(OPCODE_MAP[op]) \o operands32(operands)

\* an operandOp8 that writes its operands as operandOp does, 32 bits each
operandOp8Wide(op, operands) == uint32(OPCODE_MAP[op]) \o operands32(operands)

\* view.setUint8 keeps the low byte of every operand
operandOp8(op, operands) ==
    uint32(OPCODE_MAP[op]) \o [i \in 1..Len(operands) |-> operands[i] % 256]

(* The state of compileBytecode: the bytes pushed so far (current is their   *)
(* number), the substitutions to make and the labels known.                  *)
newImage ==
    [bytes |-> <<>>,
     labelSubstitutions |-> <<>>, stringSubstitutions |-> <<>>,
     variableSubstitutions |-> <<>>, characterSubstitutions |-> <<>>,
     labels |-> <<>>, stringLabels |-> <<>>, variableLabels |-> <<>>, characterLabels |-> <<>>]

pushBytecode(b, bytes) == [b EXCEPT !.bytes = @ \o bytes]

\* substitutions.push([id, current - 4])
pushSubstitution(b, substitutions, id) ==
    [b EXCEPT ![substitutions] = Append(@, <<id, Len(b.bytes) - 4>>)]

\* an encoder that forgets to record where an id is defined
forgetLabel(b, labels, id) == b

\* labels.set(id, current)
setLabel(b, labels, id) == [b EXCEPT ![labels] = MapSet(@, id, Len(b.bytes))]

\* [...state.variables.entries()].sort((a, b) => a[1] - b[1])
orderedVariables(state) == SortSeq(state.variables, LAMBDA a, b : a[2] < b[2])

\* one SetVariableName per variable, its operand to be substituted
RECURSIVE loadVariableNames(_, _, _)
loadVariableNames(b, variables, i) ==
    IF i > Len(variables) THEN b
    ELSE loadVariableNames(
            pushSubstitution(pushBytecode(b, operandOp("SetVariableName", <<0>>)),
                             "variableSubstitutions", variables[i][2]),
            variables, i + 1)

\* the jump over the symbol table
jumpOverSymbols(b) ==
    pushSubstitution(pushBytecode(b, operandOp("Jump", <<0>>)), "labelSubstitutions", 0)

\* a part of the symbol table: every name of entries, each with its terminator
RECURSIVE writeSymbols(_, _, _, _)
writeSymbols(b, entries, i, labels) ==
    IF i > Len(entries) THEN b
    ELSE writeSymbols(
            pushBytecode(pushBytecode(setLabel(b, labels, entries[i][2]),
                                      stringData(entries[i][1])),
                         <<0>>),
            entries, i + 1, labels)

\* the bytes of one instruction
encodeOp(b, irOp) ==
    CASE irOp.type = "Label" -> setLabel(b, "labels", irOp.target)
      [] irOp.type = "ReadStr" ->
            pushSubstitution(pushBytecode(b, operandOp("ReadStr", <<irOp.string>>)),
                             "stringSubstitutions", irOp.string)
      [] irOp.type = "SetCharacter" ->
            pushSubstitution(pushBytecode(b, operandOp("SetCharacter", <<irOp.character>>)),
                             "characterSubstitutions", irOp.character)
      [] irOp.type = "ShowDialogue" ->
            pushBytecode(b, operandOp("ShowDialogue",
                                      <<IF irOp.enclosed # undefined THEN 1 ELSE 0>>))
      [] irOp.type = "EvaluateScript" -> pushBytecode(b, operandOp("EvaluateScript", <<>>))
      [] irOp.type = "Concatenate" -> pushBytecode(b, operandOp("Concatenate", <<>>))
      [] irOp.type = "ReadVariable" ->
            pushBytecode(b, operandOp("ReadVariable", <<irOp.variable>>))
      [] irOp.type = "Jump" ->
            pushSubstitution(pushBytecode(b, operandOp("Jump", <<irOp.target>>)),
                             "labelSubstitutions", irOp.target)
      [] irOp.type = "SetVariableName" ->
            pushSubstitution(pushBytecode(b, operandOp("SetVariableName", <<irOp.variable>>)),
                             "variableSubstitutions", irOp.variable)
      [] irOp.type = "EndOfScript" -> pushBytecode(b, operandOp("EndOfScript", <<>>))
      [] irOp.type = "SetVariable" ->
            pushBytecode(b, operandOp("SetVariable", <<irOp.variable>>))
      [] irOp.type = "Prompt" -> pushBytecode(b, operandOp("Prompt", <<>>))
      [] irOp.type = "MoveRegReg" ->
            pushBytecode(b, operandOp8("MoveRegReg", <<irOp.to, irOp.from>>))
      [] irOp.type = "SubRegReg" ->
            pushBytecode(b, operandOp8("SubRegReg",
                                       <<irOp.into, irOp.registerLeft, irOp.registerRight>>))
      [] irOp.type = "PickOption" -> pushBytecode(b, operandOp8("PickOption", <<irOp.register>>))

\* the loop over the IR, from instruction number i on
RECURSIVE encodeIR(_, _, _)
encodeIR(b, ir, i) ==
    IF i > Len(ir) THEN b ELSE encodeIR(encodeOp(b, ir[i]), ir, i + 1)

(* One substitution pass over the buffer: the operand at every recorded      *)
(* offset becomes the offset of its label; a missing label throws.           *)
RECURSIVE substitute(_, _, _, _)
substitute(r, substitutions, labels, i) ==
    IF ~r.ok \/ i > Len(substitutions) THEN r
    ELSE IF ~MapHas(labels, substitutions[i][1])
    THEN [ok |-> FALSE, buffer |-> r.buffer,
          error |-> [name |-> "Error", message |-> <<"not found", substitutions[i][1]>>,
                     cursorStack |-> <<>>]]
    ELSE substitute([r EXCEPT !.buffer = setUint32(@, substitutions[i][2],
                                                   MapGet(labels, substitutions[i][1]))],
                    substitutions, labels, i + 1)

\* the four passes, on the image b that the loops have filled
substituteAll(b) ==
    substitute(
        substitute(
            substitute(
                substitute([ok |-> TRUE, buffer |-> b.bytes, error |-> <<>>],
                           b.labelSubstitutions, b.labels, 1),
                b.stringSubstitutions, b.stringLabels, 1),
            b.variableSubstitutions, b.variableLabels, 1),
        b.characterSubstitutions, b.characterLabels, 1)

\* the bytes, the pending substitutions and the labels when the loop over the
\* IR ends, before the buffer is made
assembled(ir, state) ==
    encodeIR(
        writeSymbols(
            writeSymbols(
                writeSymbols(
                    jumpOverSymbols(loadVariableNames(newImage, orderedVariables(state), 1)),
                    orderedVariables(state), 1, "variableLabels"),
                state.strings, 1, "stringLabels"),
            state.characters, 1, "characterLabels"),
        ir, 1)

compileBytecode(ir, state) == substituteAll(assembled(ir, state))

----------------------------------------------------------------------------
(* parse(lex): one action per turn of its top-level loop.                    *)

\* the token the loop's skipWhitespace(lex, true) reads
loopToken == skipWhitespace(lexer, TRUE)

\* a statement parser returned or threw
Parsed(r) ==
    /\ lexer' = r.lex
    /\ IF r.ok
       THEN /\ documentContents' = Append(documentContents, r.node)
            /\ UNCHANGED <<stage, failure>>
       ELSE /\ stage' = "failed"
            /\ failure' = r.error
            /\ UNCHANGED documentContents

\* while (!lex.isEOF()) finds the lexer's cursor at the end of the input
ParseLoopExit ==
    /\ stage = "parse"
    /\ lexIsEOF(lexer)
    /\ stage' = "parsed"
    /\ UNCHANGED <<lexer, documentContents, failure, snapshots, returned, backend>>

\* the token read is ScriptEnd: break
ParseScriptEnd ==
    /\ stage = "parse"
    /\ ~lexIsEOF(lexer)
    /\ loopToken.ok /\ loopToken.node.type = "ScriptEnd"
    /\ lexer' = loopToken.lex
    /\ stage' = "parsed"
    /\ UNCHANGED <<documentContents, failure, snapshots, returned, backend>>

\* the token read is a Variable
ParsePossibleAssignment ==
    /\ stage = "parse"
    /\ ~lexIsEOF(lexer)
    /\ loopToken.ok /\ loopToken.node.type = "Variable"
    /\ Parsed(parsePossibleAssignment(loopToken.lex, loopToken.node))
    /\ UNCHANGED <<snapshots, returned, backend>>

\* any other token
ParseDialogue ==
    /\ stage = "parse"
    /\ ~lexIsEOF(lexer)
    /\ loopToken.ok /\ loopToken.node.type \notin {"ScriptEnd", "Variable"}
    /\ Parsed(parseDialogue(loopToken.lex, loopToken.node))
    /\ UNCHANGED <<snapshots, returned, backend>>

\* skipWhitespace found the stream finished
ParseUnexpectedEnd ==
    /\ stage = "parse"
    /\ ~lexIsEOF(lexer)
    /\ ~loopToken.ok
    /\ Parsed(loopToken)
    /\ UNCHANGED <<snapshots, returned, backend>>

----------------------------------------------------------------------------
(* vm.ts: the machine state and the helpers of run().  The VM state is the   *)
(* record [stack, reg, nextVariableId, variableFromName, variableValues,     *)
(* character]; reg is indexed from 0 as in the source (0 is PC, 1 is SP).    *)

createVM ==
    [stack |-> <<>>, reg |-> [i \in 0..4 |-> 0], nextVariableId |-> 0,
     variableFromName |-> <<>>, variableValues |-> <<>>, character |-> 0]

\* DataView accepts a read of size bytes at offset; otherwise it throws RangeError
inRange(buf, offset, size) == offset >= 0 /\ offset + size <= Len(buf)

\* view.getUint32(offset, true)
getUint32(buf, offset) ==
    buf[offset + 1] + 256 * buf[offset + 2] + 65536 * buf[offset + 3] + 16777216 * buf[offset + 4]

\* view.getUint8(offset)
getUint8(buf, offset) == buf[offset + 1]

\* readStr's loop: bytes up to the null terminator; a read past the end throws
RECURSIVE readStrFrom(_, _, _)
readStrFrom(buf, at, bytes) ==
    IF ~inRange(buf, at, 1) THEN [ok |-> FALSE, text |-> <<>>]
    ELSE IF getUint8(buf, at) = 0 THEN [ok |-> TRUE, text |-> decode(bytes)]
    ELSE readStrFrom(buf, at + 1, Append(bytes, getUint8(buf, at)))

readStr(buf, offset) == readStrFrom(buf, offset, <<>>)

stackPush(v, value) == [v EXCEPT !.stack = Append(@, value), !.reg[1] = @ + 1]

\* the state after stackPop(): SP is decremented whether or not a value was there
stackPop(v) == [v EXCEPT !.stack = popped(@), !.reg[1] = @ - 1]

\* what stackPop() returns: Array.prototype.pop of an empty array is undefined
top(v) == IF v.stack = <<>> THEN undefinedString ELSE v.stack[Len(v.stack)]

\* the two values joined as they were popped
join(first, second) == first \o second

\* [first, second].reverse().join(''), first being the value popped first
reverseJoin(first, second) == second \o first

\* variableValues.get(id), without the default
valueOrUndefined(variableValues, id) ==
    IF MapHas(variableValues, id) THEN MapGet(variableValues, id) ELSE undefinedString

\* variableValues.get(id) || ""
valueOr(variableValues, id) ==
    IF MapHas(variableValues, id) /\ truthy(MapGet(variableValues, id))
    THEN MapGet(variableValues, id) ELSE <<>>

\* state.stack.length = length
setLength(stack, length) ==
    [i \in 1..length |-> IF i <= Len(stack) THEN stack[i] ELSE undefinedString]

(* The loop of PickOption: while i < oplen, pop a key and then a value, and  *)
(* opts.set(key, value); a missing or empty key or value throws.             *)
RECURSIVE popOptions(_, _, _, _)
popOptions(v, i, oplen, opts) ==
    IF i >= oplen THEN [ok |-> TRUE, vm |-> v, opts |-> opts]
    ELSE IF ~truthy(top(v)) \/ ~truthy(top(stackPop(v)))
    THEN [ok |-> FALSE, vm |-> stackPop(stackPop(v)), opts |-> opts]
    ELSE popOptions(stackPop(stackPop(v)), i + 2, oplen,
                    MapSet(opts, top(v), top(stackPop(v))))

\* what PickOption pushes: the choice the user typed, result being opts.get(choice)
picked(choice, result) == choice

\* new Error(message)
Error(message) == [name |-> "Error", message |-> message, cursorStack |-> <<>>]

\* the RangeError of a DataView read outside the buffer
RangeError == [name |-> "RangeError", message |-> <<"Offset is outside the bounds of the DataView">>,
               cursorStack |-> <<>>]

----------------------------------------------------------------------------
(* compile.ts after parse: compileIR, then compileBytecode writes script.bc. *)

frontend == <<lexer, documentContents, snapshots, returned>>

\* const state = createCompiler(); const ir = compileIR(ast, state)
CompileIR ==
    /\ stage = "parsed"
    /\ IR' = compileIR(documentContents, createCompiler).ir
    /\ compiler' = compileIR(documentContents, createCompiler).state
    /\ stage' = "ir"
    /\ UNCHANGED <<frontend, failure, bc, vm, driver, shown, log>>

\* the image, or the Error thrown by a substitution pass
Compiled(image) ==
    IF image.ok
    THEN bc' = image.buffer /\ stage' = "bytecode" /\ UNCHANGED failure
    ELSE stage' = "failed" /\ failure' = image.error /\ UNCHANGED bc

\* const bytecode = compileBytecode(ir, state); Deno.writeFileSync('./script.bc', ...)
CompileBytecode ==
    /\ stage = "ir"
    /\ Compiled(compileBytecode(IR, compiler))
    /\ UNCHANGED <<frontend, IR, compiler, vm, driver, shown, log>>

----------------------------------------------------------------------------
(* run.ts: createVM on the image, then while (!done) done = run(vm).         *)

\* const vm = createVM(Deno.readFileSync('script.bc').buffer); let done = false
CreateVM ==
    /\ stage = "bytecode"
    /\ vm' = createVM
    /\ driver' = [done |-> FALSE, inRun |-> FALSE, calls |-> 0]
    /\ stage' = "run"
    /\ UNCHANGED <<frontend, failure, IR, compiler, bc, shown, log>>

\* the loop finds done false and calls run(vm)
DriverCall ==
    /\ stage = "run" /\ ~driver.inRun /\ ~driver.done
    /\ driver' = [driver EXCEPT !.inRun = TRUE, !.calls = @ + 1]
    /\ UNCHANGED <<frontend, stage, failure, IR, compiler, bc, vm, shown, log>>

\* the loop finds done true: console.log(vm.toJSON())
DriverExit ==
    /\ stage = "run" /\ ~driver.inRun /\ driver.done
    /\ stage' = "exited"
    /\ UNCHANGED <<frontend, failure, IR, compiler, bc, vm, driver, shown, log>>

----------------------------------------------------------------------------
(* run(state): one action per instruction executed by its loop.              *)

\* PC
pc == vm.reg[0]

\* the instruction the loop of run() is about to execute
fetched ==
    IF inRange(bc, pc, 4) THEN OPCODE_TO_IROp(getUint32(bc, pc)) ELSE "RangeError"

\* run() is at the top of its loop, about to execute an op instruction
Executing(op) == stage = "run" /\ driver.inRun /\ fetched = op

\* the state after the opcode and size more bytes have been read
advanced(size) == [vm EXCEPT !.reg[0] = @ + 4 + size]

\* the 32-bit operand that follows the opcode
operand == getUint32(bc, pc + 4)

\* the 8-bit operand number i that follows the opcode
operand8(i) == getUint8(bc, pc + 3 + i)

\* what the observer records of an instruction: how it ended, the number and the string it handled
Event(op, outcome, arg, value) ==
    [op |-> op, call |-> driver.calls, outcome |-> outcome, arg |-> arg, value |-> value]

\* the instruction is done and the loop goes on
Break(op, v, arg, value) ==
    /\ vm' = v
    /\ log' = Append(log, Event(op, "break", arg, value))
    /\ UNCHANGED <<stage, failure, driver, shown>>

\* the instruction throws: the error leaves run() and the driver
Raise(op, v, error) ==
    /\ vm' = v
    /\ stage' = "failed"
    /\ failure' = error
    /\ driver' = [driver EXCEPT !.inRun = FALSE]
    /\ log' = Append(log, Event(op, "throw", -1, <<>>))
    /\ UNCHANGED shown

\* the instruction makes run() return done to the driver
ReturnDone(op, v, done, value) ==
    /\ vm' = v
    /\ driver' = [driver EXCEPT !.inRun = FALSE, !.done = done]
    /\ log' = Append(log, Event(op, IF done THEN "true" ELSE "false", -1, value))
    /\ UNCHANGED <<stage, failure>>

Jump ==
    /\ Executing("Jump")
    /\ IF inRange(bc, pc + 4, 4)
       THEN Break("Jump", [vm EXCEPT !.reg[0] = operand], operand, <<>>)
       ELSE Raise("Jump", advanced(0), RangeError)
    /\ UNCHANGED <<frontend, IR, compiler, bc>>

EndOfScript ==
    /\ Executing("EndOfScript")
    /\ ReturnDone("EndOfScript", advanced(0), TRUE, <<>>)
    /\ UNCHANGED <<frontend, IR, compiler, bc, shown>>

ReadStr ==
    /\ Executing("ReadStr")
    /\ IF inRange(bc, pc + 4, 4) /\ readStr(bc, operand).ok
       THEN Break("ReadStr", stackPush(advanced(4), readStr(bc, operand).text),
                  operand, readStr(bc, operand).text)
       ELSE Raise("ReadStr", IF inRange(bc, pc + 4, 4) THEN advanced(4) ELSE advanced(0), RangeError)
    /\ UNCHANGED <<frontend, IR, compiler, bc>>

SetCharacter ==
    /\ Executing("SetCharacter")
    /\ IF inRange(bc, pc + 4, 4)
       THEN Break("SetCharacter", [advanced(4) EXCEPT !.character = operand], operand, <<>>)
       ELSE Raise("SetCharacter", advanced(0), RangeError)
    /\ UNCHANGED <<frontend, IR, compiler, bc>>

Concatenate ==
    /\ Executing("Concatenate")
    /\ IF Len(vm.stack) < 2
       THEN Raise("Concatenate", advanced(0), Error(<<"Stack underflow">>))
       ELSE Break("Concatenate",
                  stackPush(stackPop(stackPop(advanced(0))),
                            reverseJoin(top(vm), top(stackPop(vm)))),
                  -1, reverseJoin(top(vm), top(stackPop(vm))))
    /\ UNCHANGED <<frontend, IR, compiler, bc>>

\* a ShowDialogue that prints its line and stays in the loop of run()
ShowDialogueNoYield ==
    /\ Executing("ShowDialogue")
    /\ IF ~inRange(bc, pc + 4, 4)
       THEN Raise("ShowDialogue", advanced(0), RangeError)
       ELSE IF Len(vm.stack) < 1
       THEN Raise("ShowDialogue", advanced(4), Error(<<"Stack underflow">>))
       ELSE IF ~readStr(bc, vm.character).ok
       THEN Raise("ShowDialogue", advanced(4), RangeError)
       ELSE /\ vm' = stackPop(advanced(4))
            /\ log' = Append(log, Event("ShowDialogue", "break", -1, top(vm)))
            /\ shown' = Append(shown, [character |-> readStr(bc, vm.character).text,
                                       text |-> top(vm)])
            /\ UNCHANGED <<stage, failure, driver>>
    /\ UNCHANGED <<frontend, IR, compiler, bc>>

ShowDialogue ==
    /\ Executing("ShowDialogue")
    /\ IF ~inRange(bc, pc + 4, 4)
       THEN Raise("ShowDialogue", advanced(0), RangeError)
       ELSE IF Len(vm.stack) < 1
       THEN Raise("ShowDialogue", advanced(4), Error(<<"Stack underflow">>))
       ELSE IF ~readStr(bc, vm.character).ok
       THEN Raise("ShowDialogue", advanced(4), RangeError)
       ELSE /\ ReturnDone("ShowDialogue", stackPop(advanced(4)), FALSE, top(vm))
            /\ shown' = Append(shown, [character |-> readStr(bc, vm.character).text,
                                       text |-> top(vm)])
    /\ UNCHANGED <<frontend, IR, compiler, bc>>

\* what new Function('vm', `return (${script})`)(...) can do, for the scripts of
\* a text the model does not interpret: return a value, throw, or never return
ScriptOutcomes == {"returns", "throws", "hangs"}

\* ret.toString() of the values a script returns in the model
ScriptValues == {<<"1">>}

EvaluateScript ==
    /\ Executing("EvaluateScript")
    /\ IF ~truthy(top(vm))
       THEN Raise("EvaluateScript", stackPop(advanced(0)), Error(<<"Stack underflow">>))
       ELSE \E outcome \in ScriptOutcomes :
              CASE outcome = "returns" ->
                     \E ret \in ScriptValues :
                        Break("EvaluateScript", stackPush(stackPop(advanced(0)), ret), -1, ret)
                [] outcome = "throws" ->
                     Raise("EvaluateScript", stackPop(advanced(0)), Error(<<"script">>))
                [] outcome = "hangs" ->
                     /\ vm' = stackPop(advanced(0))
                     /\ stage' = "hung"
                     /\ log' = Append(log, Event("EvaluateScript", "hang", -1, <<>>))
                     /\ UNCHANGED <<failure, driver, shown>>
    /\ UNCHANGED <<frontend, IR, compiler, bc>>

ReadVariable ==
    /\ Executing("ReadVariable")
    /\ IF inRange(bc, pc + 4, 4)
       THEN Break("ReadVariable", stackPush(advanced(4), valueOr(vm.variableValues, operand)),
                  operand, valueOr(vm.variableValues, operand))
       ELSE Raise("ReadVariable", advanced(0), RangeError)
    /\ UNCHANGED <<frontend, IR, compiler, bc>>

SetVariableName ==
    /\ Executing("SetVariableName")
    /\ IF inRange(bc, pc + 4, 4) /\ readStr(bc, operand).ok
       THEN Break("SetVariableName",
                  [advanced(4) EXCEPT
                      !.variableFromName = MapSet(@, readStr(bc, operand).text, vm.nextVariableId),
                      !.nextVariableId = @ + 1],
                  vm.nextVariableId, readStr(bc, operand).text)
       ELSE Raise("SetVariableName",
                  IF inRange(bc, pc + 4, 4) THEN advanced(4) ELSE advanced(0), RangeError)
    /\ UNCHANGED <<frontend, IR, compiler, bc>>

\* a SetVariable that stores its value for the variable declared next
SetVariableShifted ==
    /\ Executing("SetVariable")
    /\ IF ~truthy(top(vm))
       THEN Raise("SetVariable", stackPop(advanced(0)), Error(<<"Stack underflow">>))
       ELSE IF ~inRange(bc, pc + 4, 4)
       THEN Raise("SetVariable", stackPop(advanced(0)), RangeError)
       ELSE Break("SetVariable",
                  [stackPop(advanced(4)) EXCEPT !.variableValues = MapSet(@, operand + 1, top(vm))],
                  operand, top(vm))
    /\ UNCHANGED <<frontend, IR, compiler, bc>>

SetVariable ==
    /\ Executing("SetVariable")
    /\ IF ~truthy(top(vm))
       THEN Raise("SetVariable", stackPop(advanced(0)), Error(<<"Stack underflow">>))
       ELSE IF ~inRange(bc, pc + 4, 4)
       THEN Raise("SetVariable", stackPop(advanced(0)), RangeError)
       ELSE Break("SetVariable",
                  [stackPop(advanced(4)) EXCEPT !.variableValues = MapSet(@, operand, top(vm))],
                  operand, top(vm))
    /\ UNCHANGED <<frontend, IR, compiler, bc>>

\* what the user can type at a prompt
Replies == {<<>>, <<"a">>, <<"c">>}

\* prompt() returns null when the user cancels
null == <<"null">>

\* a Prompt that hands control back to the driver once it has its answer
PromptYields ==
    /\ Executing("Prompt")
    /\ IF ~truthy(top(vm))
       THEN Raise("Prompt", stackPop(advanced(0)), Error(<<"Stack underflow">>))
       ELSE \E value \in Replies \cup {null} :
              IF value = null
              THEN Raise("Prompt", stackPop(advanced(0)), Error(<<"Prompt cancelled">>))
              ELSE /\ ReturnDone("Prompt", stackPush(stackPop(advanced(0)), value), FALSE, value)
                   /\ UNCHANGED shown
    /\ UNCHANGED <<frontend, IR, compiler, bc>>

Prompt ==
    /\ Executing("Prompt")
    /\ IF ~truthy(top(vm))
       THEN Raise("Prompt", stackPop(advanced(0)), Error(<<"Stack underflow">>))
       ELSE \E value \in Replies \cup {null} :
              IF value = null
              THEN Raise("Prompt", stackPop(advanced(0)), Error(<<"Prompt cancelled">>))
              ELSE Break("Prompt", stackPush(stackPop(advanced(0)), value), -1, value)
    /\ UNCHANGED <<frontend, IR, compiler, bc>>

\* the registers after state.reg[to] = state.reg[from]
moved(v, to, from) ==
    [v EXCEPT !.reg[to] = v.reg[from],
              !.stack = IF to = 1 THEN setLength(@, v.reg[from]) ELSE @]

MoveRegReg ==
    /\ Executing("MoveRegReg")
    /\ IF inRange(bc, pc + 4, 2)
       THEN Break("MoveRegReg", moved(advanced(2), operand8(1), operand8(2)), operand8(1), <<>>)
       ELSE Raise("MoveRegReg", advanced(0), RangeError)
    /\ UNCHANGED <<frontend, IR, compiler, bc>>

SubRegReg ==
    /\ Executing("SubRegReg")
    /\ IF inRange(bc, pc + 4, 3)
       THEN Break("SubRegReg",
                  [advanced(3) EXCEPT !.reg[operand8(1)] =
                      advanced(2).reg[operand8(2)] - advanced(3).reg[operand8(3)]],
                  operand8(1), <<>>)
       ELSE Raise("SubRegReg", advanced(0), RangeError)
    /\ UNCHANGED <<frontend, IR, compiler, bc>>

\* PickOption once its options are popped: the prompt, the lookup and the push
pickFrom(p) ==
    IF ~p.ok THEN Raise("PickOption", p.vm, Error(<<"Stack underflow">>))
    ELSE \E value \in Replies \cup {null} :
           IF value = null
           THEN Raise("PickOption", p.vm, Error(<<"Prompt cancelled">>))
           ELSE IF ~MapHas(p.opts, value) \/ ~truthy(MapGet(p.opts, value))
           THEN Raise("PickOption", p.vm, Error(<<"Invalid option">>))
           ELSE Break("PickOption", stackPush(p.vm, picked(value, MapGet(p.opts, value))),
                      Len(p.opts), value)

\* a PickOption that does not look at the parity of its count
PickOptionAnyCount ==
    /\ Executing("PickOption")
    /\ IF ~inRange(bc, pc + 4, 1)
       THEN Raise("PickOption", advanced(0), RangeError)
       ELSE pickFrom(popOptions(advanced(1), 0, advanced(1).reg[operand8(1)], <<>>))
    /\ UNCHANGED <<frontend, IR, compiler, bc>>

\* oplen is state.reg[read8()]: the register is read once the operand is
PickOption ==
    /\ Executing("PickOption")
    /\ IF ~inRange(bc, pc + 4, 1)
       THEN Raise("PickOption", advanced(0), RangeError)
       ELSE IF advanced(1).reg[operand8(1)] % 2 # 0
       THEN Raise("PickOption", advanced(1), Error(<<"Odd option length in PickOption operand">>))
       ELSE pickFrom(popOptions(advanced(1), 0, advanced(1).reg[operand8(1)], <<>>))
    /\ UNCHANGED <<frontend, IR, compiler, bc>>

\* the default case, or the read of the opcode itself out of range
UnknownOpcode ==
    /\ Executing(undefined) \/ Executing("RangeError")
    /\ IF fetched = undefined
       THEN Raise("Unknown", advanced(0), Error(<<"Unknown opcode">>))
       ELSE Raise("Unknown", vm, RangeError)
    /\ UNCHANGED <<frontend, IR, compiler, bc>>

----------------------------------------------------------------------------
(* The lexer object used on its own: a caller makes any sequence of next(),  *)
(* pushCurrent(), popCurrent() and shiftLast() calls on lex(input).  As in   *)
(* parsePossibleAssignment, its one user, a snapshot is taken only when none *)
(* is outstanding, and popCurrent() and shiftLast() are called only on an    *)
(* outstanding snapshot.                                                     *)

\* the characters of the lexer specification's inputs: one of every class
LexAlphabet == {"a", " ", "\n", "\"", "=", "$"}

RECURSIVE Texts(_, _)
Texts(alphabet, n) ==
    IF n = 0 THEN {<<>>}
    ELSE LET shorter == Texts(alphabet, n - 1)
         IN  shorter \cup {Append(t, c) : t \in {u \in shorter : Len(u) = n - 1}, c \in alphabet}

\* what identifies a token to a caller: its type and its text
TokenSig(result) ==
    IF result.done THEN <<"done">> ELSE <<result.value.type, result.value.text>>

\* the tokens the coming next() calls return, up to the end of the stream
RECURSIVE FutureTokens(_)
FutureTokens(l) ==
    IF l.peaked.done THEN <<>> ELSE <<TokenSig(l.peaked)>> \o FutureTokens(next(l))

\* what a caller can observe of the stream: current(), peek() and every later next()
StreamView(l) ==
    [current |-> TokenSig(current(l)), peek |-> TokenSig(peek(l)), future |-> FutureTokens(l)]

NoCall == [call |-> "none", value |-> <<>>, saved |-> <<>>, nexts |-> 0]

\* nothing is compiled and no machine exists
NoBackend ==
    /\ IR = <<>>
    /\ compiler = <<>>
    /\ bc = <<>>
    /\ vm = <<>>
    /\ driver = [done |-> FALSE, inRun |-> FALSE, calls |-> 0]
    /\ shown = <<>>
    /\ log = <<>>

InitLex ==
    /\ \E input \in Texts(LexAlphabet, MaxLexLen) : lexer = lex(input)
    /\ stage = "lex"
    /\ documentContents = <<>>
    /\ failure = <<>>
    /\ snapshots = <<>>
    /\ returned = NoCall
    /\ NoBackend

LexNext ==
    /\ stage = "lex"
    /\ lexer' = next(lexer)
    /\ returned' = [call |-> "next", value |-> TokenSig(lexer'.current), saved |-> <<>>,
                    nexts |-> IF snapshots = <<>> THEN 0
                              ELSE IF returned.nexts < MaxNexts THEN returned.nexts + 1
                              ELSE MaxNexts]
    /\ UNCHANGED <<stage, documentContents, failure, snapshots, backend>>

LexPushCurrent ==
    /\ stage = "lex"
    /\ snapshots = <<>>
    /\ lexer' = pushCurrent(lexer)
    /\ snapshots' = Append(snapshots, StreamView(lexer))
    /\ returned' = [call |-> "pushCurrent", value |-> <<>>, saved |-> <<>>, nexts |-> 0]
    /\ UNCHANGED <<stage, documentContents, failure, backend>>

LexPopCurrent ==
    /\ stage = "lex"
    /\ snapshots # <<>>
    /\ lexer' = popCurrent(lexer)
    /\ snapshots' = popped(snapshots)
    /\ returned' = [call |-> "popCurrent", value |-> <<>>,
                    saved |-> snapshots[Len(snapshots)], nexts |-> returned.nexts]
    /\ UNCHANGED <<stage, documentContents, failure, backend>>

LexShiftLast ==
    /\ stage = "lex"
    /\ snapshots # <<>>
    /\ lexer' = shiftLast(lexer)
    /\ snapshots' = popped(snapshots)
    /\ returned' = [call |-> "shiftLast", value |-> <<>>, saved |-> <<>>, nexts |-> 0]
    /\ UNCHANGED <<stage, documentContents, failure, backend>>

NextLex == LexNext \/ LexPushCurrent \/ LexPopCurrent \/ LexShiftLast

SpecLex == InitLex /\ [][NextLex]_vars

----------------------------------------------------------------------------
(* C3: lexer rollback is exact: after pushCurrent(), any number of next()    *)
(* calls and popCurrent(), current(), peek() and the tokens returned by all  *)
(* later next() calls are those of the time of pushCurrent().                *)
C3_RollbackExact ==
    returned.call = "popCurrent" => StreamView(lexer) = returned.saved

----------------------------------------------------------------------------
(* lex followed by parse, on every short text.                               *)

\* the characters of the parser specification's inputs
ParseAlphabet == {"a", " ", "\n", "$", "=", "?", ":", "\"", "{", "}", "\\"}

InitParse ==
    /\ \E input \in Texts(ParseAlphabet, MaxParseLen) : lexer = lex(input)
    /\ stage = "parse"
    /\ documentContents = <<>>
    /\ failure = <<>>
    /\ snapshots = <<>>
    /\ returned = NoCall
    /\ NoBackend

NextParse ==
    \/ ParseLoopExit
    \/ ParseScriptEnd
    \/ ParsePossibleAssignment
    \/ ParseDialogue
    \/ ParseUnexpectedEnd

SpecParse == InitParse /\ [][NextParse]_vars

----------------------------------------------------------------------------
(* The whole tool chain: compile.ts on a script (lex, parse, compileIR,      *)
(* compileBytecode), then run.ts on the image; or run.ts on an image that    *)
(* compile.ts did not write.                                                 *)

\* the lines the scripts of the model are made of
ScriptLines ==
    { <<>>,
      <<"a">>,
      <<"a", ":", "b">>,
      <<"a", " ", "$", "x", "!">>,
      <<"$", "x">>,
      <<"$", "x", " ", "=", " ", "\"", "o", "k", "\"">>,
      <<"$", "y", " ", "=", " ", "$", "x">>,
      <<"$", "x", " ", "<", " ", "a">>,
      <<"$", "x", " ", "?", " ", "a", " ", "\"", "A", "\"", " ", "?", " ", "b", " ", "\"", "B", "\"">>,
      <<"a", " ", "{", "1", "}">>,
      <<"$", "x", " ", "?", " ", "a", " ", "\"", "\"">>,
      <<"a", NUL, "b">>,
      <<"$", "x", " ", "=">>,
      <<"$", "x", " ", "?", " ", "a", " ", "\"", "A", "\"", " ", "?", " ", "a", " ", "\"", "B", "\"">>,
      <<"$", "x", " ", "=", " ", "a", NUL, "b">>,
      <<"a", " ", BACKTICK, BACKTICK>> }

\* the scripts of exactly n lines, every line ended by a newline
RECURSIVE ScriptsOf(_)
ScriptsOf(n) ==
    IF n = 0 THEN {<<>>}
    ELSE {s \o line \o <<"\n">> : s \in ScriptsOf(n - 1), line \in ScriptLines}

Scripts == UNION {ScriptsOf(n) : n \in 1..MaxStmts}

\* images that no compiler wrote: an opcode the VM does not know, and an empty file
GivenImages == { <<99, 0, 0, 0>>, <<>> }

InitScript ==
    /\ \E script \in Scripts : lexer = lex(script)
    /\ stage = "parse"
    /\ documentContents = <<>>
    /\ failure = <<>>
    /\ snapshots = <<>>
    /\ returned = NoCall
    /\ NoBackend

InitImage ==
    /\ \E image \in GivenImages : bc = image
    /\ stage = "bytecode"
    /\ lexer = lex(<<>>)
    /\ documentContents = <<>>
    /\ failure = <<>>
    /\ snapshots = <<>>
    /\ returned = NoCall
    /\ IR = <<>>
    /\ compiler = <<>>
    /\ vm = <<>>
    /\ driver = [done |-> FALSE, inRun |-> FALSE, calls |-> 0]
    /\ shown = <<>>
    /\ log = <<>>

Init == InitScript \/ InitImage

Next ==
    \/ ParseLoopExit
    \/ ParseScriptEnd
    \/ ParsePossibleAssignment
    \/ ParseDialogue
    \/ ParseUnexpectedEnd
    \/ CompileIR
    \/ CompileBytecode
    \/ CreateVM
    \/ DriverCall
    \/ DriverExit
    \/ Jump
    \/ EndOfScript
    \/ ReadStr
    \/ SetCharacter
    \/ Concatenate
    \/ ShowDialogue
    \/ EvaluateScript
    \/ ReadVariable
    \/ SetVariableName
    \/ SetVariable
    \/ Prompt
    \/ MoveRegReg
    \/ SubRegReg
    \/ PickOption
    \/ UnknownOpcode

Spec == Init /\ [][Next]_vars

\* the steps of run.ts: the driver and the instructions of the machine
Run ==
    \/ CreateVM
    \/ DriverCall
    \/ DriverExit
    \/ Jump
    \/ EndOfScript
    \/ ReadStr
    \/ SetCharacter
    \/ Concatenate
    \/ ShowDialogue
    \/ EvaluateScript
    \/ ReadVariable
    \/ SetVariableName
    \/ SetVariable
    \/ Prompt
    \/ MoveRegReg
    \/ SubRegReg
    \/ PickOption
    \/ UnknownOpcode

\* run.ts, once started on an image, keeps executing: the process is never
\* stopped from outside, and every prompt gets its answer
FairSpec == Spec /\ WF_vars(Run)

----------------------------------------------------------------------------
(* The claims about the parser. *)

\* the text being parsed
input == lexer.lexer.input

\* the tokens of a text, as a lexer nobody rolls back yields them
AllTokens(text) == FutureTokens(lex(text))

\* the index of the first token of toks at or after i whose type is in types (Len + 1 if none)
RECURSIVE FirstOf(_, _, _)
FirstOf(toks, i, types) ==
    IF i > Len(toks) \/ toks[i][1] \in types THEN i ELSE FirstOf(toks, i + 1, types)

\* the tokens of toks that stand for text: neither ScriptEnd nor the end of the stream
WithoutScriptEnd(toks) == SelectSeq(toks, LAMBDA t : t[1] \notin {"ScriptEnd", "done"})

(* The children a run of Word, Whitespace, SpecialCharacter and Variable     *)
(* tokens stands for: a literal per token, an Expression per Variable,       *)
(* adjacent literals merged.                                                 *)
RECURSIVE ChildrenOf(_)
ChildrenOf(toks) ==
    IF toks = <<>> THEN <<>>
    ELSE LET t == toks[Len(toks)]
             child == IF t[1] = "Variable" THEN [type |-> "Expression", key |-> t[2]]
                      ELSE StringNode(t[2])
         IN  pushChild(ChildrenOf(popped(toks)), child)

\* a text with no enclosure marker and no escape
Plain(text) == \A i \in 1..Len(text) : text[i] \notin STRING_ENCLOSURES \cup {"\\"}

\* the first statement of the text has just been parsed, and nothing after it
FirstStatementParsed == stage = "parse" /\ Len(documentContents) = 1

\* the index of the token that ends the first line of toks
FirstLineEnd(toks) == FirstOf(toks, 1, {"NewLine", "ScriptEnd"})

\* the text starts with $key and the first token after it, whitespace and
\* newlines skipped, is not the special character ?, < or =
StartsPlainVariableLine(toks) ==
    /\ toks[1][1] = "Variable"
    /\ LET n == toks[FirstOf(toks, 2, {"Word", "Variable", "SpecialCharacter",
                                      "EnclosedTextIndicator", "ScriptEnd"})]
       IN  ~(n[1] = "SpecialCharacter" /\ n[2][1] \in {"?", "<", "="})

(* C4: a statement that starts with $key, and whose next significant token   *)
(* is not ?, < or =, is parsed as a Dialogue without speaker whose text is   *)
(* Expression(key) followed by every remaining token of the same line, in    *)
(* order; the stream is then at the end of that line, with every token of    *)
(* the following lines still to come (ScriptEnd left aside).  Stated for     *)
(* lines without enclosure markers or escapes, where every token stands for  *)
(* itself.                                                                   *)
C4_VariableDialogueKeepsLine ==
    (FirstStatementParsed /\ Plain(input) /\ StartsPlainVariableLine(AllTokens(input)))
    => LET toks == AllTokens(input)
           e == FirstLineEnd(toks)
       IN  /\ documentContents[1] =
                 [type |-> "Dialogue", speaker |-> undefinedString,
                  contents |-> TextNode(ChildrenOf(SubSeq(toks, 1, e - 1)))]
           /\ WithoutScriptEnd(<<TokenSig(current(lexer))>> \o FutureTokens(lexer))
                 = WithoutScriptEnd(SubSeq(toks, e, Len(toks)))

\* the lines of a text: the runs of characters between its newlines
RECURSIVE LinesOf(_, _)
LinesOf(text, line) ==
    IF text = <<>> THEN <<line>>
    ELSE IF Head(text) = "\n" THEN <<line>> \o LinesOf(Tail(text), <<>>)
    ELSE LinesOf(Tail(text), Append(line, Head(text)))

\* a line without its leading whitespace
RECURSIVE StripLeading(_)
StripLeading(line) ==
    IF line # <<>> /\ Head(line) \in WHITESPACE_CHARS THEN StripLeading(Tail(line)) ELSE line

\* the Dialogue a line of words and blanks stands for
WordLineDialogue(line) ==
    [type |-> "Dialogue", speaker |-> undefinedString,
     contents |-> TextNode(<<StringNode(StripLeading(line))>>)]

\* one Dialogue per non-blank line, in source order
RECURSIVE WordLineDocument(_)
WordLineDocument(lines) ==
    IF lines = <<>> THEN <<>>
    ELSE IF StripLeading(Head(lines)) = <<>> THEN WordLineDocument(Tail(lines))
    ELSE <<WordLineDialogue(Head(lines))>> \o WordLineDocument(Tail(lines))

\* a text of words, blanks and newlines only
WordsOnly(text) == \A i \in 1..Len(text) : text[i] \in {"a", " ", "\n"}

(* C5: parse consumes the whole token stream: when it returns, the token it  *)
(* read last is ScriptEnd, and every non-blank line has contributed its      *)
(* statement to Document.contents, in source order, whether or not the text  *)
(* ends with a newline.  Stated for texts of words, blanks and newlines,     *)
(* where every non-blank line is one Dialogue.                               *)
C5_ParseConsumesStream ==
    (stage = "parsed" /\ WordsOnly(input))
    => /\ TokenSig(current(lexer))[1] = "ScriptEnd"
       /\ documentContents = WordLineDocument(LinesOf(input, <<>>))

\* the marker that closes an enclosure opened by the marker c
closerOf(c) == IF c = "{" THEN "}" ELSE c

(* Balanced enclosures: read left to right, a marker that closes the         *)
(* innermost open enclosure closes it, any other marker but } opens one, an  *)
(* escaped character is no marker, and no enclosure is open at the end.      *)
RECURSIVE BalancedFrom(_, _)
BalancedFrom(text, open) ==
    IF text = <<>> THEN open = <<>>
    ELSE IF Head(text) = "\\" THEN BalancedFrom(IF Len(text) > 1 THEN Tail(Tail(text)) ELSE <<>>, open)
    ELSE IF Head(text) \notin STRING_ENCLOSURES THEN BalancedFrom(Tail(text), open)
    ELSE IF open # <<>> /\ Head(text) = closerOf(open[Len(open)])
    THEN BalancedFrom(Tail(text), popped(open))
    ELSE IF Head(text) = "}" THEN FALSE
    ELSE BalancedFrom(Tail(text), Append(open, Head(text)))

Balanced(text) == BalancedFrom(text, <<>>)

(* C6: lex followed by parse raises no error on a script whose enclosures    *)
(* are balanced, whatever token each line starts with.                       *)
C6_BalancedNeverRaises ==
    stage = "failed" => ~Balanced(input)

----------------------------------------------------------------------------
(* The claims about the virtual machine and its driver. *)

\* the image was written by compileBytecode from the output of compileIR
CompiledImage == IR # <<>>

\* the events of the call number n of run()
EventsOf(n) == SelectSeq(log, LAMBDA e : e.call = n)

\* the call of run() made last has returned to the driver
CallReturned == stage \in {"run", "exited"} /\ driver.calls > 0 /\ ~driver.inRun

\* the number of events of events whose instruction is op
CountOp(events, op) == Len(SelectSeq(events, LAMBDA e : e.op = op))

(* C1: a call of run() that returns (rather than raise a fatal error)        *)
(* returns true exactly when the instruction it executed last is             *)
(* EndOfScript, and returns false only directly after a ShowDialogue, the    *)
(* single one of the call; every other instruction of the call, Prompt and   *)
(* PickOption included, left run() in its loop.                              *)
C1_RunReturnsOnlyAtYieldOrEnd ==
    CallReturned
    => LET events == EventsOf(driver.calls)
           last == events[Len(events)]
       IN  /\ events # <<>>
           /\ driver.done <=> last.op = "EndOfScript"
           /\ ~driver.done => last.op = "ShowDialogue" /\ CountOp(events, "ShowDialogue") = 1
           /\ last.outcome = (IF driver.done THEN "true" ELSE "false")
           /\ \A i \in 1..(Len(events) - 1) : events[i].outcome = "break"

\* a call that executed a Prompt or a PickOption went on to the next
\* ShowDialogue before it returned false
C1_Witness ==
    /\ CallReturned /\ ~driver.done
    /\ CountOp(EventsOf(driver.calls), "Prompt") + CountOp(EventsOf(driver.calls), "PickOption") > 0

\* the Dialogue statements of the document, in source order
Dialogues == SelectSeq(documentContents, LAMBDA node : node.type = "Dialogue")

\* children that are all literals, the children of nested texts included
RECURSIVE AllLiteral(_)
AllLiteral(contents) ==
    \A i \in 1..Len(contents) :
        \/ contents[i].type = "String"
        \/ contents[i].type = "Text" /\ AllLiteral(contents[i].contents)

\* the characters of literal children, in source order
RECURSIVE LiteralText(_)
LiteralText(contents) ==
    IF contents = <<>> THEN <<>>
    ELSE (IF Head(contents).type = "String" THEN Head(contents).contents
          ELSE LiteralText(Head(contents).contents))
         \o LiteralText(Tail(contents))

\* the values run() returned to the driver, in order
Returns ==
    [i \in 1..Len(SelectSeq(log, LAMBDA e : e.outcome \in {"true", "false"})) |->
        SelectSeq(log, LAMBDA e : e.outcome \in {"true", "false"})[i].outcome]

(* What the driver loop has done when it ends on a compiled image: run()     *)
(* returned false once per Dialogue statement, each time for the next        *)
(* Dialogue in source order, and then true, D + 1 calls in all.  The text    *)
(* shown identifies the Dialogue where it is literal and holds no U+0000,    *)
(* the character at which readStr ends a string.                             *)
OneCallPerDialogue ==
    (stage = "exited" /\ CompiledImage)
    => /\ driver.calls = Len(Dialogues) + 1
       /\ Returns = [i \in 1..(Len(Dialogues) + 1) |->
                        IF i <= Len(Dialogues) THEN "false" ELSE "true"]
       /\ Len(shown) = Len(Dialogues)
       /\ \A i \in 1..Len(Dialogues) :
             (/\ AllLiteral(Dialogues[i].contents.contents)
              /\ \A k \in 1..Len(LiteralText(Dialogues[i].contents.contents)) :
                    LiteralText(Dialogues[i].contents.contents)[k] # NUL)
             => shown[i].text = LiteralText(Dialogues[i].contents.contents)

RECURSIVE LastStored(_, _)
LastStored(n, id) ==
    IF n = 0 THEN <<>>
    ELSE IF log[n].op = "SetVariable" /\ log[n].outcome = "break" /\ log[n].arg = id
    THEN log[n].value
    ELSE LastStored(n - 1, id)

(* C7: ReadVariable never raises: whatever the variable id, it pushes        *)
(* exactly one value, the one stored last for that id or the empty string    *)
(* if the id was never set, and leaves the variable store unchanged.         *)
C7_ReadVariableNeverRaises ==
    [][Executing("ReadVariable") /\ inRange(bc, pc + 4, 4)
       => /\ stage' = "run"
          /\ vm'.stack = Append(vm.stack, LastStored(Len(log), operand))
          /\ vm'.variableValues = vm.variableValues]_vars

\* scenario 1: the variable of the one dialogue line was never set, and the
\* line is rendered with the empty string in its place
C7_Witness ==
    /\ stage = "exited"
    /\ vm.variableValues = <<>>
    /\ \E i \in 1..Len(log) : log[i].op = "ReadVariable" /\ log[i].value = <<>>
    /\ shown = <<[character |-> <<ACK>>, text |-> <<"a", " ", "!">>]>>

\* the ReadStr and ReadVariable events among the events from number i to number j
Pushes(i, j) ==
    SelectSeq(SubSeq(log, i, j), LAMBDA e : e.op \in {"ReadStr", "ReadVariable"})

\* the values of events, joined from the first to the last
RECURSIVE Joined(_)
Joined(events) ==
    IF events = <<>> THEN <<>> ELSE Head(events).value \o Joined(Tail(events))

\* where the run of ReadStr, ReadVariable and Concatenate events that ends
\* just before the event number j starts
RECURSIVE RunStart(_)
RunStart(j) ==
    IF j > 1 /\ log[j - 1].op \in {"ReadStr", "ReadVariable", "Concatenate"}
    THEN RunStart(j - 1) ELSE j

\* the text of a dialogue made of literals and variables is its children's
\* values, joined in source order
RendersInOrder ==
    \A j \in 1..Len(log) :
        (/\ log[j].op = "ShowDialogue" /\ log[j].outcome = "false"
         /\ RunStart(j) > 1
         /\ log[RunStart(j) - 1].op \in {"Jump", "SetCharacter", "SetVariable", "ShowDialogue"})
        => log[j].value = Joined(Pushes(RunStart(j), j - 1))

(* C8: Concatenate replaces the two top values a (below) and b (top) by the  *)
(* single value a followed by b, so that the stack shrinks by exactly one;   *)
(* the text compiled from consecutive children is rendered in their order.   *)
C8_ConcatenateKeepsOrder ==
    /\ [][Executing("Concatenate") /\ Len(vm.stack) >= 2
          => vm'.stack = Append(SubSeq(vm.stack, 1, Len(vm.stack) - 2),
                                vm.stack[Len(vm.stack) - 1] \o vm.stack[Len(vm.stack)])]_vars
    /\ []RendersInOrder

\* a line of three children, the second a variable that holds a value, has
\* been rendered
C8_Witness ==
    /\ shown # <<>>
    /\ shown[Len(shown)].text = <<"a", " ", "o", "k", "!">>
    /\ CountOp(log, "Concatenate") = 2

\* the variable values of store, but for the variable id
Others(store, id) == SelectSeq(store, LAMBDA entry : entry[1] # id)

(* C9: SetVariable(id) stores the value it pops for id and leaves the value  *)
(* of every other id alone; every later ReadVariable(id) pushes the value    *)
(* the last SetVariable(id) stored; and once a literal is assigned to x, x   *)
(* is that literal in the store, which is what a dialogue that refers to x   *)
(* renders.                                                                  *)
C9_SetThenRead ==
    /\ [][Executing("SetVariable") /\ truthy(top(vm)) /\ inRange(bc, pc + 4, 4)
          => /\ stage' = "run"
             /\ MapHas(vm'.variableValues, operand)
             /\ MapGet(vm'.variableValues, operand) = top(vm)
             /\ Others(vm'.variableValues, operand) = Others(vm.variableValues, operand)]_vars
    /\ [](\A j \in 1..Len(log) :
             log[j].op = "ReadVariable" => log[j].value = LastStored(j - 1, log[j].arg))
    /\ []((/\ stage = "exited"
           /\ Len(documentContents) = 2
           /\ documentContents[1].type = "Assignment" /\ ~documentContents[1].isPrompt
           /\ documentContents[1].key = <<"x">>
           /\ AllLiteral(documentContents[1].value.contents)
           /\ documentContents[2].type = "Dialogue"
           /\ documentContents[2].contents.contents = <<[type |-> "Expression", key |-> <<"x">>]>>)
          => /\ vm.variableValues = <<<<0, LiteralText(documentContents[1].value.contents)>>>>
             /\ Len(shown) = 1
             /\ shown[1].text = LiteralText(documentContents[1].value.contents))

\* scenario 3: "ok" was assigned to x and the dialogue $x rendered it
C9_Witness ==
    /\ stage = "exited"
    /\ lexer.lexer.input = <<"$", "x", " ", "=", " ", "\"", "o", "k", "\"", "\n", "$", "x", "\n">>
    /\ vm.variableValues = <<<<0, <<"o", "k">>>>>>
    /\ shown = <<[character |-> <<ACK>>, text |-> <<"o", "k">>]>>

(* C10: PickOption with an even count N >= 2 and a choice that is one of the *)
(* presented keys pops N values and pushes one, the value that was paired    *)
(* with the chosen key, which the SetVariable that follows stores.           *)
C10_PickOptionPushesPairedValue ==
    [][(Executing("PickOption") /\ stage' = "run")
       => LET N == vm.reg[operand8(1)]
              opts == popOptions(advanced(1), 0, N, <<>>).opts
              choice == log'[Len(log')].value
          IN  /\ Len(vm'.stack) = Len(vm.stack) - N + 1
              /\ top(vm') = MapGet(opts, choice)]_vars

\* PickOption is about to run on a register that holds an odd count
OddCount ==
    Executing("PickOption") /\ inRange(bc, pc + 4, 1) /\ advanced(1).reg[operand8(1)] % 2 # 0

(* C11: PickOption on a register that holds an odd count raises the fatal    *)
(* error "Odd option length in PickOption operand"; it has popped no value   *)
(* from the stack and has asked the user nothing when it does.               *)
C11_PickOptionRejectsOddCount ==
    [][OddCount
       => /\ stage' = "failed"
          /\ failure' = Error(<<"Odd option length in PickOption operand">>)
          /\ vm'.stack = vm.stack /\ vm'.reg[1] = vm.reg[1]
          /\ log' = Append(log, Event("PickOption", "throw", -1, <<>>))]_vars

\* a select whose first option has an empty prompt left one value, the key,
\* on the stack, and PickOption refused the count 1
C11_Witness ==
    /\ stage = "failed" /\ CompiledImage
    /\ failure = Error(<<"Odd option length in PickOption operand">>)
    /\ vm.stack = << <<"a">> >>
    /\ vm.reg[3] = 1

\* the keys of the n values PickOption is about to pop: the value on top and
\* every second value below it
PoppedKeys(n) == [i \in 1..(n \div 2) |-> vm.stack[Len(vm.stack) - 2 * (i - 1)]]

\* PickOption is about to pop n values, an even count, two of whose keys are equal
DuplicateKeys(n) ==
    /\ n % 2 = 0 /\ n >= 4 /\ n <= Len(vm.stack)
    /\ \E i, j \in 1..(n \div 2) : i # j /\ PoppedKeys(n)[i] = PoppedKeys(n)[j]

(* C12: PickOption rejects a payload in which two pairs carry the same key:  *)
(* it raises an error of its own, and neither asks the user for a choice     *)
(* nor goes on with one of the two options replaced by the other.            *)
C12_PickOptionRejectsDuplicateKeys ==
    [][(Executing("PickOption") /\ inRange(bc, pc + 4, 1)
        /\ DuplicateKeys(advanced(1).reg[operand8(1)]))
       => /\ stage' = "failed"
          /\ failure'.message \notin {<<"Prompt cancelled">>, <<"Invalid option">>}]_vars

\* the name that the table names, a Map from names to ids, gives the id
NameOf(names, id) == names[CHOOSE i \in 1..Len(names) : names[i][2] = id][1]

\* the header of a compiled image has been executed: its Jump is done
HeaderDone ==
    /\ CompiledImage /\ stage \in {"run", "exited", "failed", "hung"}
    /\ \E i \in 1..Len(log) : log[i].op = "Jump" /\ log[i].outcome = "break"

\* the ReadStr and SetCharacter instructions of the IR, in order
PatchedOps == SelectSeq(IR, LAMBDA irOp : irOp.type \in {"ReadStr", "SetCharacter"})

\* the ReadStr and SetCharacter instructions executed so far, in order: a
\* compiled image executes them in the order of the IR
PatchedEvents ==
    SelectSeq(log, LAMBDA e : e.op \in {"ReadStr", "SetCharacter"} /\ e.outcome = "break")

\* the string read at the operand of the executed instruction number i is the
\* string or the character name that the IR instruction number i referred to
ReadsInterned(i) ==
    /\ PatchedEvents[i].op = PatchedOps[i].type
    /\ readStr(bc, PatchedEvents[i].arg).ok
    /\ readStr(bc, PatchedEvents[i].arg).text =
          (IF PatchedOps[i].type = "ReadStr"
           THEN NameOf(compiler.strings, PatchedOps[i].string)
           ELSE NameOf(compiler.characters, PatchedOps[i].character))

\* the VM's map from names to ids is the compiler's variable table
VariablesRecovered ==
    /\ vm.variableFromName = compiler.variables
    /\ \A i \in 1..Len(compiler.variables) : compiler.variables[i][2] = i - 1

(* C13: once a fresh VM has executed the header of a compiled image, its map *)
(* from names to ids is the compiler's variable table, with the ids 0..n-1,  *)
(* and the null-terminated string found at every patched ReadStr or          *)
(* SetCharacter operand is the interned string or character name of the id   *)
(* that the IR instruction referred to.                                      *)
C13_SymbolTableRoundTrip ==
    HeaderDone
    => /\ VariablesRecovered
       /\ Len(PatchedEvents) <= Len(PatchedOps)
       /\ \A i \in 1..Len(PatchedEvents) : ReadsInterned(i)

\* every substitution recorded in substitutions names an id that labels
\* defines, and the operand at its offset holds the offset of that id
Resolved(buffer, substitutions, labels) ==
    \A i \in 1..Len(substitutions) :
        /\ MapHas(labels, substitutions[i][1])
        /\ inRange(buffer, substitutions[i][2], 4)
        /\ getUint32(buffer, substitutions[i][2]) = MapGet(labels, substitutions[i][1])

\* the four tables of an assembled image b are resolved in buffer
AllResolved(buffer, b) ==
    /\ Resolved(buffer, b.labelSubstitutions, b.labels)
    /\ Resolved(buffer, b.stringSubstitutions, b.stringLabels)
    /\ Resolved(buffer, b.variableSubstitutions, b.variableLabels)
    /\ Resolved(buffer, b.characterSubstitutions, b.characterLabels)

(* C14: compileBytecode, given the IR that compileIR made of a Document and  *)
(* the compiler state compileIR left, never fails: every label, string,      *)
(* variable and character substitution names an id its table defines, and   *)
(* in the buffer returned the operand of each holds the offset recorded for  *)
(* that id.                                                                  *)
C14_EncoderResolvesEveryPatch ==
    /\ [][stage = "ir" => stage' = "bytecode"]_vars
    /\ []((stage = "bytecode" /\ CompiledImage) => AllResolved(bc, assembled(IR, compiler)))

\* an image has been written whose four substitution tables all have entries
C14_Witness ==
    /\ stage = "bytecode" /\ CompiledImage
    /\ assembled(IR, compiler).stringSubstitutions # <<>>
    /\ Len(assembled(IR, compiler).variableSubstitutions) = 2
    /\ assembled(IR, compiler).characterSubstitutions # <<>>
    /\ assembled(IR, compiler).labelSubstitutions # <<>>

\* the lex object after k more calls of next()
RECURSIVE AfterNexts(_, _)
AfterNexts(l, k) == IF k = 0 THEN l ELSE AfterNexts(next(l), k - 1)

\* the iterator result holds a ScriptEnd token
IsScriptEnd(result) == ~result.done /\ result.value.type = "ScriptEnd"

(* C15: ScriptEnd is terminal and repeatable: when next() has just returned  *)
(* a ScriptEnd token, peek() returns a ScriptEnd token, and so does each of  *)
(* the next() calls that follow.                                             *)
C15_ScriptEndRepeats ==
    (returned.call = "next" /\ returned.value[1] = "ScriptEnd")
    => /\ IsScriptEnd(peek(lexer))
       /\ \A k \in 1..MaxNexts : IsScriptEnd(current(AfterNexts(lexer, k)))

\* the number of values the instruction op pops
Pops(op) == IF op = "Concatenate" THEN 2 ELSE 1

\* the step raises the fatal error "Stack underflow"
RaisesUnderflow == stage' = "failed" /\ failure' = Error(<<"Stack underflow">>)

(* C16: Concatenate, ShowDialogue, EvaluateScript, SetVariable and Prompt    *)
(* raise "Stack underflow" exactly when the stack holds fewer values than    *)
(* they pop: on a stack that is not empty the last three pop and proceed     *)
(* whatever string is on top, and SetVariable stores that string under its   *)
(* variable id.                                                              *)
C16_UnderflowOnlyWhenStackTooShort ==
    /\ [][\A op \in {"Concatenate", "ShowDialogue", "EvaluateScript", "SetVariable", "Prompt"} :
             (Executing(op) /\ (op = "ShowDialogue" => inRange(bc, pc + 4, 4)))
             => (RaisesUnderflow <=> Len(vm.stack) < Pops(op))]_vars
    /\ [][(Executing("SetVariable") /\ vm.stack # <<>> /\ inRange(bc, pc + 4, 4))
          => /\ MapHas(vm'.variableValues, operand)
             /\ MapGet(vm'.variableValues, operand) = top(vm)]_vars

(* C17: at every instruction boundary of a VM, the state in which run()      *)
(* raises a fatal error included, the SP register reg[1] is the length of    *)
(* the value stack.                                                          *)
C17_SPMirrorsStackLength ==
    stage \in {"run", "exited", "failed", "hung"} /\ vm # <<>> => vm.reg[1] = Len(vm.stack)

\* the first token of toks is a Word or a Variable and the token right after
\* it is the special character :
SpeakerLine(toks) ==
    /\ toks[1][1] \in {"Word", "Variable"}
    /\ Len(toks) >= 2 /\ toks[2] = <<"SpecialCharacter", <<":">>>>

\* the index of the first token of the text of a speaker line: after the :
\* and the whitespace that follows it
SpokenTextStart(toks) == IF Len(toks) >= 3 /\ toks[3][1] = "Whitespace" THEN 4 ELSE 3

\* the Dialogue that the speaker rule makes of the first line of toks
SpeakerRule(toks) ==
    IF SpeakerLine(toks)
    THEN [type |-> "Dialogue", speaker |-> toks[1][2],
          contents |-> TextNode(ChildrenOf(SubSeq(toks, SpokenTextStart(toks),
                                                  FirstLineEnd(toks) - 1)))]
    ELSE [type |-> "Dialogue", speaker |-> undefinedString,
          contents |-> TextNode(ChildrenOf(SubSeq(toks, 1, FirstLineEnd(toks) - 1)))]

\* the text starts with a statement that is a dialogue line: a Word, or a
\* $key that no ?, < or = follows
StartsDialogueLine(toks) ==
    toks[1][1] = "Word" \/ (toks[1][1] = "Variable" /\ StartsPlainVariableLine(toks))

----------------------------------------------------------------------------
\* the index of the first token of toks after the first that is not whitespace
OperatorAt(toks) == FirstOf(toks, 2, {"Word", "Variable", "SpecialCharacter", "EnclosedTextIndicator", "NewLine", "ScriptEnd"})

\* the text starts with $key followed, on the same line, by = or <
AssignmentLine(toks) ==
    /\ toks[1][1] = "Variable"
    /\ toks[OperatorAt(toks)][1] = "SpecialCharacter"
    /\ toks[OperatorAt(toks)][2][1] \in {"=", "<"}

\* the index of the first token of the value of an assignment line: after
\* the operator and the whitespace that follows it
ValueStart(toks) ==
    IF toks[OperatorAt(toks) + 1][1] = "Whitespace" THEN OperatorAt(toks) + 2
    ELSE OperatorAt(toks) + 1

\* the index of the token that ends the line of the operator
AssignmentLineEnd(toks) == FirstOf(toks, OperatorAt(toks) + 1, {"NewLine", "ScriptEnd"})

\* the Assignment that the first line of toks stands for
AssignmentRule(toks) ==
    [type |-> "Assignment", key |-> toks[1][2],
     value |-> TextNode(ChildrenOf(SubSeq(toks, ValueStart(toks), AssignmentLineEnd(toks) - 1))),
     isPrompt |-> toks[OperatorAt(toks)][2][1] = "<"]

(* C19: a statement $key followed by = or < is parsed as an Assignment with  *)
(* that key, isPrompt false for = and true for <, and as value the text of   *)
(* the rest of that line after the operator, leading whitespace skipped,     *)
(* whether or not whitespace follows the operator; the stream is then at the *)
(* end of that line, so that an operator followed directly by a newline      *)
(* gives an empty value and leaves the next line to be parsed as its own     *)
(* statement.  Stated for lines without enclosure markers or escapes.        *)
C19_AssignmentTakesRestOfLine ==
    (FirstStatementParsed /\ Plain(input) /\ AssignmentLine(AllTokens(input)))
    => /\ documentContents[1] = AssignmentRule(AllTokens(input))
       /\ WithoutScriptEnd(<<TokenSig(current(lexer))>> \o FutureTokens(lexer))
             = WithoutScriptEnd(SubSeq(AllTokens(input), AssignmentLineEnd(AllTokens(input)), Len(AllTokens(input))))

----------------------------------------------------------------------------
\* toks without the whitespace and newlines it starts with
RECURSIVE DropBlanks(_)
DropBlanks(toks) ==
    IF toks # <<>> /\ toks[1][1] \in {"Whitespace", "NewLine"} THEN DropBlanks(Tail(toks))
    ELSE toks

\* the quotation marks among toks
Quotes(toks) == SelectSeq(toks, LAMBDA t : t[1] = "EnclosedTextIndicator" /\ t[2][1] \in {"\"", "'"})

(* The first line of toks is a select $key ? ... whose n options take the    *)
(* whole line: the line ends with the closing quotation mark of the last     *)
(* option and a newline, and what follows that newline, blanks skipped, is   *)
(* not another ?.                                                            *)
SelectLine(toks, n) ==
    /\ toks[1][1] = "Variable"
    /\ toks[OperatorAt(toks)] = <<"SpecialCharacter", <<"?">>>>
    /\ FirstLineEnd(toks) <= Len(toks) /\ toks[FirstLineEnd(toks)][1] = "NewLine"
    /\ Quotes(SubSeq(toks, FirstLineEnd(toks) - 1, FirstLineEnd(toks) - 1)) # <<>>
    /\ Len(Quotes(SubSeq(toks, 1, FirstLineEnd(toks)))) = 2 * n
    /\ LET rest == DropBlanks(SubSeq(toks, FirstLineEnd(toks), Len(toks)))
       IN  rest = <<>> \/ rest[1] # <<"SpecialCharacter", <<"?">>>>

(* C20: parsing a select consumes exactly its option pairs: when the token   *)
(* after the last option, whitespace skipped, is not ?, that token is left   *)
(* unconsumed, so that the coming next() calls return, blanks aside, every   *)
(* token of the lines after the select and the statement that follows is     *)
(* parsed as it would be on its own.                                         *)
C20_SelectLeavesNextStatement ==
    (/\ FirstStatementParsed
     /\ documentContents[1].type = "AssignmentSelect"
     /\ SelectLine(AllTokens(input), Len(documentContents[1].options)))
    => DropBlanks(WithoutScriptEnd(FutureTokens(lexer)))
          = DropBlanks(WithoutScriptEnd(SubSeq(AllTokens(input), FirstLineEnd(AllTokens(input)), Len(AllTokens(input)))))

----------------------------------------------------------------------------
\* the text node of the Dialogue that the coming ShowDialogue renders
ShownNext == Dialogues[Len(shown) + 1].contents

(* C21: the code compiled for a text or script node with N >= 1 children     *)
(* has net stack effect +1, whatever the kind of its children, nested nodes  *)
(* without children included: on a compiled image every Concatenate finds    *)
(* the two values it joins, and the ShowDialogue of a Dialogue whose text    *)
(* has children finds the stack exactly one value long.                      *)
C21_TextCodePushesOne ==
    /\ [][(Executing("Concatenate") /\ CompiledImage) => stage' = "run"]_vars
    /\ []((/\ Executing("ShowDialogue") /\ CompiledImage
           /\ Len(shown) < Len(Dialogues)
           /\ ShownNext.contents # <<>>)
          => Len(vm.stack) = 1)

----------------------------------------------------------------------------
\* the select assignments of the document, in source order
Selects == SelectSeq(documentContents, LAMBDA node : node.type = "AssignmentSelect")

\* the options of the select whose PickOption is about to execute
PickedNext == Selects[CountOp(log, "PickOption") + 1].options

\* the values a select with these options is to leave on the stack: for
\* every option its prompt text and then its key
RECURSIVE OptionValues(_)
OptionValues(options) ==
    IF options = <<>> THEN <<>>
    ELSE <<LiteralText(Head(options).value.prompt.contents), Head(options).value.key>>
         \o OptionValues(Tail(options))

(* C22: in the code compiled for a select, every option the parser accepts,  *)
(* one with an empty quoted prompt included, pushes exactly two values, its  *)
(* prompt text and then its key: when PickOption executes, the scratch       *)
(* register is twice the number of options and the values on top of the      *)
(* stack are, option by option, the prompt and the key of that option.       *)
(* Stated for prompts made of literals.                                      *)
C22_OptionsPushPairs ==
    (/\ Executing("PickOption") /\ CompiledImage
     /\ CountOp(log, "PickOption") < Len(Selects)
     /\ \A i \in 1..Len(PickedNext) : AllLiteral(PickedNext[i].value.prompt.contents))
    => /\ advanced(1).reg[operand8(1)] = 2 * Len(PickedNext)
       /\ Len(vm.stack) >= 2 * Len(PickedNext)
       /\ SubSeq(vm.stack, Len(vm.stack) - 2 * Len(PickedNext) + 1, Len(vm.stack))
             = OptionValues(PickedNext)

----------------------------------------------------------------------------
\* the enclosure markers and escapes of a text, in order
Markers(text) == SelectSeq(text, LAMBDA c : c \in STRING_ENCLOSURES \cup {"\\"})

\* the text holds one enclosure marker in all, an opening one, and no
\* escape: the enclosure it opens is still open where the text ends
EndsInsideEnclosure(text) ==
    /\ Len(Markers(text)) = 1
    /\ Markers(text)[1] \in STRING_ENCLOSURES \ {"}"}

(* C23: if the input ends inside an enclosure, an opening quote, backtick or *)
(* { with no matching closer before ScriptEnd, parse raises a ParseError     *)
(* and returns no Document.                                                  *)
C23_UnclosedEnclosureRaises ==
    stage = "parsed" => ~EndsInsideEnclosure(input)

----------------------------------------------------------------------------
(* C24: every ParseError the parser raises, for an unexpected token and for  *)
(* an unexpected end of input alike, carries a non-empty stack of source     *)
(* positions, so that ParseError.toString, which reads the line and column   *)
(* of the last position of the stack, always yields a position.              *)
C24_ParseErrorHasPosition ==
    (stage = "failed" /\ failure.name = "ParseError") => failure.cursorStack # <<>>

----------------------------------------------------------------------------
\* no two consecutive children are both String nodes, in contents and in the
\* children lists of the nodes nested in it
RECURSIVE NoAdjacentStrings(_)
NoAdjacentStrings(contents) ==
    /\ \A i \in 1..(Len(contents) - 1) :
          ~(contents[i].type = "String" /\ contents[i + 1].type = "String")
    /\ \A i \in 1..Len(contents) :
          contents[i].type \in {"Text", "Script"} => NoAdjacentStrings(contents[i].contents)

\* the text nodes a statement holds
TextNodesOf(node) ==
    CASE node.type = "Dialogue" -> <<node.contents>>
      [] node.type = "Assignment" -> <<node.value>>
      [] node.type = "AssignmentSelect" ->
            [i \in 1..Len(node.options) |-> node.options[i].value.prompt]

(* C25: in every children list the parser builds, the contents of any text   *)
(* or script node of the document, no two consecutive children are both      *)
(* String nodes: a String appended after a String is merged into it,         *)
(* whatever token produced it.                                               *)
C25_AdjacentStringsMerged ==
    \A s \in 1..Len(documentContents) :
        \A t \in 1..Len(TextNodesOf(documentContents[s])) :
            NoAdjacentStrings(TextNodesOf(documentContents[s])[t].contents)

\* a word, a special character and an escaped quotation mark have been
\* parsed into one String
C25_Witness ==
    /\ FirstStatementParsed
    /\ input = <<"a", "=", "\\", "\"">>
    /\ documentContents[1].contents.contents = <<StringNode(<<"a", "=", "\"">>)>>

----------------------------------------------------------------------------
(* lex followed by parse, on a dialogue line that opens an inline script:    *)
(* the word a, {, and every short text of braces, words and escapes.         *)

\* the characters of the text that follows the opening {
InlineAlphabet == {"a", "{", "}", "\\"}

\* the length of the longest text that follows the opening {
MaxInlineLen == 4

InitInline ==
    /\ \E body \in Texts(InlineAlphabet, MaxInlineLen) : lexer = lex(<<"a", "{">> \o body)
    /\ stage = "parse"
    /\ documentContents = <<>>
    /\ failure = <<>>
    /\ snapshots = <<>>
    /\ returned = NoCall
    /\ NoBackend

NextInline ==
    \/ ParseLoopExit
    \/ ParseDialogue

SpecInline == InitInline /\ [][NextInline]_vars

\* the character c after a \ is taken literally, and the \ dropped
Escapable(c) == c \in (SPECIAL_CHARACTERS \cup STRING_ENCLOSURES \cup {"\n"})

(* Where the script whose text starts at text[i] ends, count nested { being  *)
(* open: the index of the first unescaped } met with no nested { open, 0 if  *)
(* there is none.                                                            *)
RECURSIVE ScriptClose(_, _, _)
ScriptClose(text, i, count) ==
    IF i > Len(text) THEN 0
    ELSE IF text[i] = "\\"
    THEN ScriptClose(text, IF i < Len(text) /\ Escapable(text[i + 1]) THEN i + 2 ELSE i + 1, count)
    ELSE IF text[i] = "{" THEN ScriptClose(text, i + 1, count + 1)
    ELSE IF text[i] = "}"
    THEN IF count > 0 THEN ScriptClose(text, i + 1, count - 1) ELSE i
    ELSE ScriptClose(text, i + 1, count)

\* the literal text that text stands for: an escaped character for itself
RECURSIVE Unescaped(_)
Unescaped(text) ==
    IF text = <<>> THEN <<>>
    ELSE IF Head(text) = "\\" /\ Len(text) > 1 /\ Escapable(text[2])
    THEN <<text[2]>> \o Unescaped(Tail(Tail(text)))
    ELSE <<Head(text)>> \o Unescaped(Tail(text))

\* the children that a literal text makes: one String, or none
Literal(text) == IF text = <<>> THEN <<>> ELSE <<StringNode(text)>>

\* the text after the a{ that the input starts with
InlineBody == SubSeq(input, 3, Len(input))

\* the text after the } that ends the script
AfterScript == SubSeq(InlineBody, ScriptClose(InlineBody, 1, 0) + 1, Len(InlineBody))

(* C26: inside an inline script opened by {, every unescaped nested { is     *)
(* counted and kept as literal text, every } met while the count is positive *)
(* is discounted and kept as literal text, and the script node ends exactly  *)
(* at the } met with count zero, which is consumed.  Stated for the line     *)
(* a{...}w, w a word or nothing: the Dialogue is the String a, the Script of *)
(* the literal text between the braces, and the String w.                    *)
C26_ScriptEndsAtMatchingBrace ==
    (/\ Len(documentContents) = 1
     /\ Len(input) >= 2 /\ input[1] = "a" /\ input[2] = "{"
     /\ ScriptClose(InlineBody, 1, 0) > 0
     /\ \A i \in 1..Len(AfterScript) : AfterScript[i] = "a")
    => documentContents[1].contents.contents
          = <<StringNode(<<"a">>),
              [type |-> "Script",
               contents |-> Literal(Unescaped(SubSeq(InlineBody, 1, ScriptClose(InlineBody, 1, 0) - 1)))]>>
            \o Literal(AfterScript)

\* the script of a{{}}a holds the nested braces as text and ends at the brace
\* that matches its own
C26_Witness ==
    /\ Len(documentContents) = 1
    /\ input = <<"a", "{", "{", "}", "}", "a">>
    /\ documentContents[1].contents.contents
          = <<StringNode(<<"a">>), [type |-> "Script", contents |-> <<StringNode(<<"{", "}">>)>>],
              StringNode(<<"a">>)>>

----------------------------------------------------------------------------
\* the characters of the input that the range of the token t delimits
Delimited(t) == SubSeq(input, t.range[1].index + 1, t.range[2].index)

\* the characters of the input that the token t stands for
CharactersOf(t) ==
    CASE t.type = "Variable" -> <<"$">> \o t.text
      [] t.type = "NewLine" -> <<"\n">>
      [] OTHER -> t.text

(* C27: tokens partition the input: the range of every token the lexer       *)
(* yields delimits exactly the characters of that token, and starts where    *)
(* the token before it ends, also for tokens read while a pushCurrent()      *)
(* snapshot is outstanding.  Stated of the token peek() holds after a        *)
(* next(), which is the token yielded last, and of the token current()       *)
(* holds, yielded just before it.                                            *)
C27_TokensPartitionInput ==
    (returned.call = "next" /\ ~lexer.peaked.done)
    => /\ Delimited(lexer.peaked.value) = CharactersOf(lexer.peaked.value)
       /\ lexer.peaked.value.range[1].index = lexer.current.value.range[2].index

----------------------------------------------------------------------------
\* the tokens of toks of the given type
OfType(toks, type) == SelectSeq(toks, LAMBDA t : t[1] = type)

(* C28: a Word token is a maximal run of characters none of which is         *)
(* whitespace, a newline, an enclosure marker, a special character or $: no  *)
(* Word holds one of these, no Word follows a Word, and every $ of the       *)
(* input, inside a run of text too, starts a Variable token.                 *)
C28_DollarEndsWord ==
    LET toks == AllTokens(input)
    IN  /\ \A i \in 1..Len(toks) :
              toks[i][1] = "Word"
              => /\ \A k \in 1..Len(toks[i][2]) : toks[i][2][k] \notin TEXT_TERMINATORS \cup {"$"}
                 /\ i < Len(toks) => toks[i + 1][1] # "Word"
        /\ Len(OfType(toks, "Variable")) = Len(SelectSeq(input, LAMBDA c : c = "$"))

----------------------------------------------------------------------------
\* where the code region of the image starts: the bytes of the header and
\* of the symbol table come before it
CodeRegion == Len(assembled(<<>>, compiler).bytes)

(* The offsets at which the encoder started an instruction: those of the     *)
(* header, one SetVariableName per variable and the Jump, and those of the   *)
(* code region, one per instruction of the IR.                               *)
InstructionStarts ==
    {8 * (i - 1) : i \in 1..(Len(compiler.variables) + 1)}
    \cup {Len(assembled(SubSeq(IR, 1, k - 1), compiler).bytes) :
             k \in {n \in 1..Len(IR) : IR[n].type # "Label"}}

(* C29: on a compiler-produced image run from PC 0, the PC at every          *)
(* instruction fetch is the offset at which the encoder started an           *)
(* instruction: the header Jump lands on the first instruction of the code   *)
(* region and the VM decodes for every opcode the operand widths the encoder *)
(* wrote, so that no byte of the symbol table is decoded as an instruction   *)
(* and the PC stays inside the buffer until EndOfScript.                     *)
C29_PCOnInstructionStarts ==
    /\ []((stage = "run" /\ CompiledImage /\ vm # <<>> /\ ~driver.done)
          => pc \in InstructionStarts /\ inRange(bc, pc, 4))
    /\ [][(Executing("Jump") /\ CompiledImage) => vm'.reg[0] = CodeRegion]_vars

\* the three 8-bit operands of a SubRegReg have been decoded and the PC is
\* on the PickOption that follows
C29_Witness ==
    /\ Executing("PickOption") /\ CompiledImage
    /\ log # <<>> /\ log[Len(log)].op = "SubRegReg"
    /\ pc \in InstructionStarts

----------------------------------------------------------------------------
(* C30: the statements of a compiled script leave the value stack as they    *)
(* found it.                                                                 *)

\* run() is not executing: the driver has not called it yet, or it has returned
BetweenCalls == stage \in {"run", "exited"} /\ vm # <<>> /\ ~driver.inRun

\* C30: in every execution of an image the compiler produced, the value stack
\* is empty (and SP is 0) whenever run() has returned, after a ShowDialogue as
\* after EndOfScript, and it is empty when EndOfScript is executed, so that
\* EndOfScript never finds state.stack.length > 0
C30_StatementsStackNeutral ==
    /\ (CompiledImage /\ BetweenCalls) => vm.stack = <<>> /\ vm.reg[1] = 0
    /\ (CompiledImage /\ Executing("EndOfScript")) => vm.stack = <<>>

\* run() has returned false from the ShowDialogue of a line whose text was joined
\* by Concatenate, after a select statement stored the option picked
C30_Witness ==
    /\ CompiledImage /\ BetweenCalls /\ ~driver.done
    /\ log # <<>> /\ log[Len(log)].op = "ShowDialogue" /\ log[Len(log)].outcome = "false"
    /\ \E i \in 1..Len(log) : log[i].op = "Concatenate" /\ log[i].outcome = "break"
    /\ \E i \in 1..Len(log) : log[i].op = "SetVariable" /\ log[i].outcome = "break"
    /\ vm.stack = <<>>

----------------------------------------------------------------------------
(* C31: the character register at ShowDialogue.                              *)

\* the byte offsets at which the encoder wrote the character names
CharacterOffsets ==
    {assembled(IR, compiler).characterLabels[i][2] :
        i \in 1..Len(assembled(IR, compiler).characterLabels)}

\* the character names the compiler declared
CharacterNames == {compiler.characters[i][1] : i \in 1..Len(compiler.characters)}

\* C31: whenever ShowDialogue executes in an image the compiler produced, the
\* character register holds the offset of a character name of the symbol
\* table, and every name shown with a line is a declared character name, for
\* lines without a speaker and before any SetCharacter too
C31_CharacterIsDeclared ==
    /\ (CompiledImage /\ Executing("ShowDialogue")) => vm.character \in CharacterOffsets
    /\ (CompiledImage /\ stage \in {"run", "exited"})
          => \A i \in 1..Len(shown) : shown[i].character \in CharacterNames

=============================================================================
